---- MODULE Spec2Model ----
(***************************************************************************)
(* Model of avaropoint/converter: the external-image inliner (package     *)
(* formats: InlineExternalImages, fetchImage, isPrivateHost,               *)
(* imageContentType) and the web server (package main: sessionStore,       *)
(* rateLimiter, securityHeaders, handleConvert, handleFile, handleZip).    *)
(*                                                                         *)
(* Text (HTML, URLs, host names, header values) is a sequence of           *)
(* one-character strings.  The Base64 text of an image payload of n bytes  *)
(* is one element B64(n) of such a sequence (it contains none of the       *)
(* characters the img regular expression looks at).  An IPv4 address is a  *)
(* 4-tuple of bytes, an IPv6 address a 16-tuple, as in Go's net.IP.        *)
(***************************************************************************)
EXTENDS Integers, Sequences, FiniteSets, TLC

\* ------------------------------------------------------------------------
\* Bounds of the model
\* ------------------------------------------------------------------------

\* img tags / text pieces per document
MaxTags == 2

\* InlineExternalImages calls per behaviour
MaxCalls == 2

\* redirects followed within one fetch (net/http stops after 10)
MaxHops == 1

\* refill ticks of the rate limiter per behaviour
MaxTicks == 1

\* uploads with a file part per behaviour
MaxUploads == 2

\* sessions made while the clock runs
MaxSessions == 1

\* minutes the clock runs on after the first session can be 10 minutes old
MaxLate == 1

\* decoders in the registry
MaxFormats == 2

\* ------------------------------------------------------------------------
\* Text helpers (strings package)
\* ------------------------------------------------------------------------

Upper == <<"A","B","C","D","E","F","G","H","I","J","K","L","M",
           "N","O","P","Q","R","S","T","U","V","W","X","Y","Z">>

Lower == <<"a","b","c","d","e","f","g","h","i","j","k","l","m",
           "n","o","p","q","r","s","t","u","v","w","x","y","z">>

Digits == <<"0","1","2","3","4","5","6","7","8","9">>

Range(f) == { f[i] : i \in DOMAIN f }

\* \w of the regular expression: [0-9A-Za-z_]
WordChars == Range(Upper) \cup Range(Lower) \cup Range(Digits) \cup {"_"}

IsWordChar(c) == c \in WordChars

UpperChars == Range(Upper)

LowerChar(c) ==
    IF c \in UpperChars THEN Lower[CHOOSE i \in DOMAIN Upper : Upper[i] = c] ELSE c

\* strings.ToLower
ToLower(s) == [i \in 1..Len(s) |-> LowerChar(s[i])]

\* strings.HasPrefix
HasPrefix(s, p) == Len(s) >= Len(p) /\ SubSeq(s, 1, Len(p)) = p

\* strings.HasSuffix
HasSuffix(s, p) == Len(s) >= Len(p) /\ SubSeq(s, Len(s) - Len(p) + 1, Len(s)) = p

\* s[i:] starts with p (i is 1-based)
HasAt(s, i, p) == i >= 1 /\ i + Len(p) - 1 <= Len(s) /\ SubSeq(s, i, i + Len(p) - 1) = p

\* strings.Contains
Contains(s, p) == \E i \in 1..(Len(s) + 1) : HasAt(s, i, p)

Min(a, b) == IF a < b THEN a ELSE b

SetMin(S) == CHOOSE x \in S : \A y \in S : x <= y

SetMax(S) == CHOOSE x \in S : \A y \in S : x >= y

\* ------------------------------------------------------------------------
\* Literals of the source
\* ------------------------------------------------------------------------

S_http == <<"h","t","t","p",":","/","/">>

S_https == <<"h","t","t","p","s",":","/","/">>

S_data == <<"d","a","t","a",":">>

S_base64 == <<";","b","a","s","e","6","4",",">>

S_image == <<"i","m","a","g","e","/">>

S_localhost == <<"l","o","c","a","l","h","o","s","t">>

S_dotlocal == <<".","l","o","c","a","l">>

S_dotinternal == <<".","i","n","t","e","r","n","a","l">>

S_metadata == <<"m","e","t","a","d","a","t","a",".","g","o","o","g","l","e">> \o S_dotinternal

S_png == <<"p","n","g">>

S_jpeg == <<"j","p","e","g">>

S_jpg == <<"j","p","g">>

S_gif == <<"g","i","f">>

S_webp == <<"w","e","b","p">>

S_svg == <<"s","v","g">>

S_bmp == <<"b","m","p">>

S_img == <<"<","i","m","g">>

S_src == <<"s","r","c","=","\"">>

\* io.LimitReader(resp.Body, 5<<20)
MaxImageBytes == 5242880

\* http.StatusOK
StatusOK == 200

\* ------------------------------------------------------------------------
\* net.IP classification (the methods isPrivateHost calls)
\* ------------------------------------------------------------------------

\* the 12-byte prefix of an IPv4-mapped IPv6 address
V4InV6Prefix == <<0,0,0,0,0,0,0,0,0,0,255,255>>

\* net.IP.To4: the 4-byte form, or <<>> when the address is not IPv4
To4(ip) ==
    IF Len(ip) = 4 THEN ip
    ELSE IF Len(ip) = 16 /\ SubSeq(ip, 1, 12) = V4InV6Prefix THEN SubSeq(ip, 13, 16)
    ELSE <<>>

IPv6loopback == <<0,0,0,0,0,0,0,0,0,0,0,0,0,0,0,1>>

IPv6unspecified == <<0,0,0,0,0,0,0,0,0,0,0,0,0,0,0,0>>

IPv4zero == <<0,0,0,0>>

IsLoopback(ip) ==
    IF To4(ip) # <<>> THEN To4(ip)[1] = 127 ELSE ip = IPv6loopback

IsPrivate(ip) ==
    IF To4(ip) # <<>>
    THEN \/ To4(ip)[1] = 10
         \/ To4(ip)[1] = 172 /\ To4(ip)[2] \div 16 = 1
         \/ To4(ip)[1] = 192 /\ To4(ip)[2] = 168
    ELSE Len(ip) = 16 /\ ip[1] \div 2 = 126

IsLinkLocalUnicast(ip) ==
    IF To4(ip) # <<>>
    THEN To4(ip)[1] = 169 /\ To4(ip)[2] = 254
    ELSE Len(ip) = 16 /\ ip[1] = 254 /\ ip[2] \div 64 = 2

IsLinkLocalMulticast(ip) ==
    IF To4(ip) # <<>>
    THEN To4(ip)[1] = 224 /\ To4(ip)[2] = 0 /\ To4(ip)[3] = 0
    ELSE Len(ip) = 16 /\ ip[1] = 255 /\ ip[2] % 16 = 2

IsUnspecified(ip) == To4(ip) = IPv4zero \/ ip = IPv6unspecified

IsMulticast(ip) ==
    IF To4(ip) # <<>>
    THEN To4(ip)[1] \div 16 = 14
    ELSE Len(ip) = 16 /\ ip[1] = 255

\* ------------------------------------------------------------------------
\* net.LookupIP: the answer is an input of the environment
\* ------------------------------------------------------------------------

LookupError == [err |-> TRUE, ips |-> {}]

Answer(S) == [err |-> FALSE, ips |-> S]

DigitValue(c) == (CHOOSE i \in DOMAIN Digits : Digits[i] = c) - 1

RECURSIVE Decimal(_)
Decimal(s) ==
    IF s = <<>> THEN 0 ELSE 10 * Decimal(SubSeq(s, 1, Len(s) - 1)) + DigitValue(s[Len(s)])

\* the fields of s between the separators sep
RECURSIVE Split(_, _)
Split(s, sep) ==
    IF \A i \in 1..Len(s) : s[i] # sep THEN <<s>>
    ELSE LET k == SetMin({ i \in 1..Len(s) : s[i] = sep })
         IN  <<SubSeq(s, 1, k - 1)>> \o Split(SubSeq(s, k + 1, Len(s)), sep)

\* host is a dotted-decimal IPv4 literal
IsIPv4Literal(host) ==
    LET f == Split(host, ".")
    IN  /\ Len(f) = 4
        /\ \A i \in 1..4 :
              /\ Len(f[i]) \in 1..3
              /\ \A j \in 1..Len(f[i]) : f[i][j] \in Range(Digits)
              /\ Decimal(f[i]) <= 255

ParseIPv4(host) == [i \in 1..4 |-> Decimal(Split(host, ".")[i])]

\* what net.LookupIP(host) can return when the resolver would answer `dns`:
\* a literal address is returned as it is, without a query
LookupIP(host, dns) ==
    IF IsIPv4Literal(host) THEN Answer({ParseIPv4(host)}) ELSE dns

\* ------------------------------------------------------------------------
\* isPrivateHost
\* ------------------------------------------------------------------------

\* the names isPrivateHost blocks without a lookup
BlockedName(host) ==
    LET lower == ToLower(host)
    IN  \/ lower = S_localhost
        \/ HasSuffix(lower, S_dotlocal)
        \/ lower = S_metadata
        \/ HasSuffix(lower, S_dotinternal)

\* isPrivateHost without the ip.IsPrivate() test (a faulty variant)
isPrivateHostNoPrivate(host, answer) ==
    \/ BlockedName(host)
    \/ answer.err
    \/ \E ip \in answer.ips :
          \/ IsLoopback(ip)
          \/ IsLinkLocalUnicast(ip)
          \/ IsLinkLocalMulticast(ip)
          \/ IsUnspecified(ip)

\* answer is what net.LookupIP(host) returns when isPrivateHost gets to call it
isPrivateHost(host, answer) ==
    \/ BlockedName(host)
    \/ answer.err
    \/ \E ip \in answer.ips :
          \/ IsLoopback(ip)
          \/ IsPrivate(ip)
          \/ IsLinkLocalUnicast(ip)
          \/ IsLinkLocalMulticast(ip)
          \/ IsUnspecified(ip)

\* ------------------------------------------------------------------------
\* net/url: url.Parse and URL.Hostname, for scheme://[user@]host[:port][/...]
\* ------------------------------------------------------------------------

\* the text after "scheme://"
AfterScheme(u) ==
    IF \E i \in 1..Len(u) : HasAt(u, i, <<":","/","/">>)
    THEN LET k == SetMin({ i \in 1..Len(u) : HasAt(u, i, <<":","/","/">>) })
         IN  SubSeq(u, k + 3, Len(u))
    ELSE <<>>

\* the authority: up to the first "/", "?" or "#"
Authority(u) ==
    LET a == AfterScheme(u)
        E == { i \in 1..Len(a) : a[i] \in {"/", "?", "#"} }
    IN  IF E = {} THEN a ELSE SubSeq(a, 1, SetMin(E) - 1)

\* the authority without its userinfo
HostPort(u) ==
    LET a == Authority(u)
        A == { i \in 1..Len(a) : a[i] = "@" }
    IN  IF A = {} THEN a ELSE SubSeq(a, SetMax(A) + 1, Len(a))

\* URL.Hostname: the host without its port
Hostname(u) ==
    LET h == HostPort(u)
        C == { i \in 1..Len(h) : h[i] = ":" }
    IN  IF C = {} THEN h ELSE SubSeq(h, 1, SetMin(C) - 1)

\* url.Parse returns an error: a space or a "%" that starts no valid escape
\* in the host ("%XX" in a host is valid only for non-ASCII bytes and "%25")
ParseFails(u) ==
    LET h == HostPort(u)
    IN  \E i \in 1..Len(h) :
           \/ h[i] = " "
           \/ h[i] = "%" /\ ~(i + 2 <= Len(h) /\ h[i + 1] \in {"8","9","a","b","c","d","e","f"})

\* ------------------------------------------------------------------------
\* imageContentType
\* ------------------------------------------------------------------------

imageContentType(ct) ==
    LET l == ToLower(ct)
    IN  IF Contains(l, S_png) THEN S_image \o S_png
        ELSE IF Contains(l, S_jpeg) \/ Contains(l, S_jpg) THEN S_image \o S_jpeg
        ELSE IF Contains(l, S_gif) THEN S_image \o S_gif
        ELSE IF Contains(l, S_webp) THEN S_image \o S_webp
        ELSE IF Contains(l, S_svg) THEN S_image \o S_svg \o <<"+","x","m","l">>
        ELSE IF Contains(l, S_bmp) THEN S_image \o S_bmp
        ELSE S_image \o S_png

\* base64.StdEncoding.EncodeToString of a payload of n bytes: one element
B64(n) == <<"b64:" \o ToString(n)>>

\* "data:" + mime + ";base64," + b64
DataURI(ct, n) == S_data \o imageContentType(ct) \o S_base64 \o B64(n)

\* ------------------------------------------------------------------------
\* imgSrcRe = (<img\b[^>]*?\bsrc=")([^"]+)(")
\* ------------------------------------------------------------------------

NoMatch == [p |-> 0, q |-> 0, r |-> 0]

\* <img\b at p
ImgAt(s, p) ==
    /\ s[p] = "<"
    /\ HasAt(s, p, S_img)
    /\ (p + 4 > Len(s) \/ ~IsWordChar(s[p + 4]))

\* \bsrc=" at q
SrcAt(s, q) == s[q] = "s" /\ HasAt(s, q, S_src) /\ q > 1 /\ ~IsWordChar(s[q - 1])

\* the closing quote of ([^"]+)(") when the value starts at v, or 0
CloseQuote(s, v) ==
    LET Q == { r \in v..Len(s) : s[r] = "\"" }
    IN  IF Q = {} \/ SetMin(Q) = v THEN 0 ELSE SetMin(Q)

\* how far [^>]* can reach from i: the place of the first ">" at or after i,
\* or the place after the end of s
TagEnd(s, i) ==
    LET G == { k \in i..Len(s) : s[k] = ">" }
    IN  IF G = {} THEN Len(s) + 1 ELSE SetMin(G)

\* the places where \bsrc=" can match after <img at p: [^>]*? crosses no ">"
SrcPlaces(s, p) ==
    { q \in (p + 4)..(TagEnd(s, p + 4) - 1) : SrcAt(s, q) /\ CloseQuote(s, q + 5) # 0 }

\* the match that starts at p, or NoMatch: the lazy [^>]*? takes the first place
MatchAt(s, p) ==
    IF ImgAt(s, p) /\ SrcPlaces(s, p) # {}
    THEN LET q == SetMin(SrcPlaces(s, p))
         IN  [p |-> p, q |-> q, r |-> CloseQuote(s, q + 5)]
    ELSE NoMatch

\* the leftmost match at or after from, or NoMatch
FindMatch(s, from) ==
    LET P == { p \in from..Len(s) : MatchAt(s, p) # NoMatch }
    IN  IF P = {} THEN NoMatch ELSE MatchAt(s, SetMin(P))

\* parts[1], parts[2], parts[3] of a match, and the whole match
Prefix(s, m) == SubSeq(s, m.p, m.q + 4)

Url(s, m) == SubSeq(s, m.q + 5, m.r - 1)

Suffix(s, m) == SubSeq(s, m.r, m.r)

Whole(s, m) == SubSeq(s, m.p, m.r)

IsHTTP(u) == HasPrefix(u, S_http) \/ HasPrefix(u, S_https)

\* ------------------------------------------------------------------------
\* The inputs of the model: addresses, hosts, URLs, documents, responses
\* ------------------------------------------------------------------------

IP_public == <<93,184,216,34>>

IP_loopback == <<127,0,0,1>>

IP_private == <<10,0,0,1>>

IP_metadata == <<169,254,169,254>>

IP_zero == <<0,0,0,0>>

IP_mcastLocal == <<224,0,0,1>>

IP_mcastAdmin == <<239,1,1,1>>

IP6_loopback == IPv6loopback

IP6_ula == <<252,0,0,0,0,0,0,0,0,0,0,0,0,0,0,1>>

IP6_linkLocal == <<254,128,0,0,0,0,0,0,0,0,0,0,0,0,0,1>>

IP6_mcastGlobal == <<255,14,0,0,0,0,0,0,0,0,0,0,0,0,0,1>>

IP6_mapped == V4InV6Prefix \o <<192,168,1,1>>

AllIPs ==
    { IP_public, IP_loopback, IP_private, IP_metadata, IP_zero, IP_mcastLocal,
      IP_mcastAdmin, IP6_loopback, IP6_ula, IP6_linkLocal, IP6_mcastGlobal, IP6_mapped }

\* resolver answers of the fetch specification: every single address, a public
\* address next to a blocked one, and the lookup error
AllDns ==
    { Answer({ip}) : ip \in AllIPs }
        \cup { Answer({IP_public, IP_private}), Answer({IP_public, IP6_loopback}), LookupError }

\* resolver answers of the document specification
SomeDns == { Answer({IP_public}), Answer({IP_loopback}), LookupError }

H_a == <<"a">>

H_b == <<"b">>

URL(scheme, host, path) == scheme \o host \o path

U_a == URL(S_http, H_a, <<"/","x">>)

U_b == URL(S_https, H_b, <<"/","y">>)

U_bad == URL(S_http, <<"%">>, <<>>)

U_cid == <<"c","i","d",":","x">>

U_localhost == URL(S_http, S_localhost, <<":","8","/">>)

U_LOCALHOST == URL(S_http, <<"L","o","c","a","l","H","o","s","t">>, <<>>)

U_local == URL(S_http, <<"u","@","p","c">> \o S_dotlocal, <<"/">>)

U_internal == URL(S_https, <<"d","b">> \o S_dotinternal, <<"?","q">>)

U_metadata == URL(S_http, S_metadata, <<"/">>)

U_ipMetadata == URL(S_http, <<"1","6","9",".","2","5","4",".","1","6","9",".","2","5","4">>, <<"/">>)

U_ipPublic == URL(S_http, <<"9","3",".","1","8","4",".","2","1","6",".","3","4">>, <<"/">>)

\* the URLs of the fetch specification
FetchURLs ==
    { U_a, U_bad, U_localhost, U_LOCALHOST, U_local, U_internal, U_metadata,
      U_ipMetadata, U_ipPublic }

\* Location headers a server answers with
AllTargets == { U_a, U_b, U_localhost, U_ipMetadata }

SomeTargets == { U_b }

ImgTag(u) == S_img \o <<" ">> \o S_src \o u \o <<"\"", ">">>

ImgTagUpper(u) == <<"<","I","M","G"," ","S","R","C","=","\"">> \o u \o <<"\"", ">">>

ImgTagAlt(u) == S_img \o <<" ","a","l","t","=","\"","\""," ">> \o S_src \o u \o <<"\"", ">">>

Text == <<"<","p",">">>

Pieces ==
    { ImgTag(U_a), ImgTagUpper(U_a), ImgTagAlt(U_b), ImgTag(U_cid), ImgTag(U_bad), Text }

RECURSIVE DocsOf(_)
DocsOf(n) ==
    IF n = 0 THEN { <<>> }
    ELSE DocsOf(n - 1) \cup { d \o x : d \in DocsOf(n - 1), x \in Pieces }

\* the documents of the document specification
Docs == DocsOf(MaxTags)

\* the documents of the fetch specification: one img tag
FetchDocs == { ImgTag(u) : u \in FetchURLs }

CT_png == S_image \o S_png

CT_svg == S_image \o S_svg \o <<"+","x","m","l">>

CT_PNG == <<"I","m","a","g","e","/","P","N","G">>

CT_html == <<"t","e","x","t","/","h","t","m","l">>

AllCTs == { CT_png, CT_svg, CT_PNG, CT_html, <<>> }

SomeCTs == { CT_png, CT_html }

AllStatuses == { StatusOK, 302, 404 }

SomeStatuses == { StatusOK, 404 }

\* Content lengths of the bodies a server sends
AllBodyLens == { 0, 1, MaxImageBytes, MaxImageBytes + 1 }

SomeBodyLens == { 0, 1 }

\* defaultCheckRedirect of net/http: at most 10 redirects are followed
RedirectLimit == 10

\* ------------------------------------------------------------------------
\* Web server (package main): constants and literals of the source
\* ------------------------------------------------------------------------

\* newRateLimiter(10, 2): maxTokens
BurstTokens == 10

\* newRateLimiter(10, 2): refillRate
RefillRate == 2

\* 10*time.Minute, in minutes
SessionMinutes == 10

\* http.MaxBytesReader(w, r.Body, 50<<20)
MaxUploadBytes == 52428800

\* len(sid) != 32
SessionIDLen == 32

\* b := make([]byte, 16)
RandomIDBytes == 16

\* the clock of the model counts thirds of a minute: time.Minute
Minute == 3

\* the age beyond which cleanup deletes a session
SessionTTL == SessionMinutes * Minute

StatusMovedPermanently == 301

StatusBadRequest == 400

\* the status the README gives for a request of another client
StatusForbidden == 403

StatusNotFound == 404

StatusMethodNotAllowed == 405

StatusUnprocessableEntity == 422

StatusTooManyRequests == 429

S_apiInfo == <<"/","a","p","i","/","i","n","f","o">>

S_apiConvert == <<"/","a","p","i","/","c","o","n","v","e","r","t">>

S_apiFiles == <<"/","a","p","i","/","f","i","l","e","s","/">>

S_apiZip == <<"/","a","p","i","/","z","i","p","/">>

S_static == <<"/","s","t","a","t","i","c","/">>

S_dothtml == <<".","h","t","m","l">>

S_dothtm == <<".","h","t","m">>

S_dottxt == <<".","t","x","t">>

S_dotrtf == <<".","r","t","f">>

S_dotpng == <<".","p","n","g">>

S_dotjpg == <<".","j","p","g">>

S_dotjpeg == <<".","j","p","e","g">>

S_dotgif == <<".","g","i","f">>

S_dotpdf == <<".","p","d","f">>

S_dotdoc == <<".","d","o","c">>

S_dotdocx == <<".","d","o","c","x">>

S_dotxls == <<".","x","l","s">>

S_dotxlsx == <<".","x","l","s","x">>

S_dotbmp == <<".","b","m","p">>

S_dotwebp == <<".","w","e","b","p">>

S_dotsvg == <<".","s","v","g">>

CT_htmlUtf8 == <<"t","e","x","t","/","h","t","m","l",";"," ","c","h","a","r","s","e","t","=","u","t","f","-","8">>

CT_textUtf8 == <<"t","e","x","t","/","p","l","a","i","n",";"," ","c","h","a","r","s","e","t","=","u","t","f","-","8">>

CT_rtf == <<"a","p","p","l","i","c","a","t","i","o","n","/","r","t","f">>

CT_pdf == <<"a","p","p","l","i","c","a","t","i","o","n","/","p","d","f">>

CT_octet == <<"a","p","p","l","i","c","a","t","i","o","n","/","o","c","t","e","t","-","s","t","r","e","a","m">>

CT_json == <<"a","p","p","l","i","c","a","t","i","o","n","/","j","s","o","n">>

CT_zip == <<"a","p","p","l","i","c","a","t","i","o","n","/","z","i","p">>

CT_css == <<"t","e","x","t","/","c","s","s",";"," ","c","h","a","r","s","e","t","=","u","t","f","-","8">>

CT_jpeg == <<"i","m","a","g","e","/","j","p","e","g">>

CT_gif == <<"i","m","a","g","e","/","g","i","f">>

CT_bmp == <<"i","m","a","g","e","/","b","m","p">>

CT_webp == <<"i","m","a","g","e","/","w","e","b","p">>

CT_svgxml == <<"i","m","a","g","e","/","s","v","g","+","x","m","l">>

S_texthtml == <<"t","e","x","t","/","h","t","m","l">>

S_inlineFilename == <<"i","n","l","i","n","e",";"," ","f","i","l","e","n","a","m","e","=","\"">>

S_zipDisposition == <<"a","t","t","a","c","h","m","e","n","t",";"," ","f","i","l","e","n","a","m","e","=","\"","c","o","n","v","e","r","t","e","d","_","o","u","t","p","u","t",".","z","i","p","\"">>

\* the Content-Security-Policy of an extracted HTML file, directive by directive
CSP_extracted ==
    <<"default-src 'none'", "style-src 'unsafe-inline'", "img-src data:",
      "frame-ancestors 'none'">>

\* the Content-Security-Policy of the main page
CSP_index ==
    <<"default-src 'self'", "script-src 'self'", "style-src 'self'",
      "img-src 'self' data:", "base-uri 'self'", "form-action 'self'",
      "object-src 'none'", "frame-ancestors 'none'">>

\* ------------------------------------------------------------------------
\* Web server: pure functions
\* ------------------------------------------------------------------------

HexDigits == <<"0","1","2","3","4","5","6","7","8","9","a","b","c","d","e","f">>

\* hexadecimal without the leading zero of a byte below 16 (a faulty variant)
RECURSIVE HexEncodeShort(_)
HexEncodeShort(b) ==
    IF b = <<>> THEN <<>>
    ELSE (IF b[1] < 16 THEN <<HexDigits[b[1] + 1]>>
          ELSE <<HexDigits[(b[1] \div 16) + 1], HexDigits[(b[1] % 16) + 1]>>)
            \o HexEncodeShort(Tail(b))

\* hex.EncodeToString
HexEncode(b) ==
    [i \in 1..(2 * Len(b)) |->
        IF i % 2 = 1 THEN HexDigits[(b[(i + 1) \div 2] \div 16) + 1]
        ELSE HexDigits[(b[i \div 2] % 16) + 1]]

HexChars == Range(HexDigits) \cup {"A","B","C","D","E","F"}

\* isHexString
isHexString(s) == (\A i \in 1..Len(s) : s[i] \in HexChars) /\ Len(s) > 0

\* strings.TrimPrefix
TrimPrefix(s, p) == IF HasPrefix(s, p) THEN SubSeq(s, Len(p) + 1, Len(s)) ELSE s

\* strings.SplitN(s, "/", 2)
SplitN2(s) ==
    LET at == { i \in 1..Len(s) : s[i] = "/" }
    IN  IF at = {} THEN <<s>>
        ELSE <<SubSeq(s, 1, SetMin(at) - 1), SubSeq(s, SetMin(at) + 1, Len(s))>>

\* runes below 0x20 and 0x7f; each is one element of a name
ControlRunes == {"\t", "\n", "\r", "<NUL>", "<ESC>", "<DEL>"}

\* safeDisposition
safeDisposition(name) ==
    S_inlineFilename
      \o [i \in 1..Len(name) |->
            IF name[i] \in ControlRunes \/ name[i] = "\"" \/ name[i] = "\\"
            THEN "_" ELSE name[i]]
      \o <<"\"">>

\* guessType comparing the name as it is written (a faulty variant)
guessTypeAsWritten(name) ==
    IF HasSuffix(name, S_dothtml) \/ HasSuffix(name, S_dothtm) THEN "html"
    ELSE IF HasSuffix(name, S_dottxt) THEN "text"
    ELSE IF HasSuffix(name, S_dotrtf) THEN "rtf"
    ELSE IF HasSuffix(name, S_dotpng) THEN "image"
    ELSE IF HasSuffix(name, S_dotjpg) \/ HasSuffix(name, S_dotjpeg) THEN "image"
    ELSE IF HasSuffix(name, S_dotgif) THEN "image"
    ELSE IF HasSuffix(name, S_dotpdf) THEN "pdf"
    ELSE IF HasSuffix(name, S_dotdoc) \/ HasSuffix(name, S_dotdocx) THEN "document"
    ELSE IF HasSuffix(name, S_dotxls) \/ HasSuffix(name, S_dotxlsx) THEN "spreadsheet"
    ELSE "file"

\* guessType
guessType(name) ==
    LET lower == ToLower(name)
    IN  IF HasSuffix(lower, S_dothtml) \/ HasSuffix(lower, S_dothtm) THEN "html"
        ELSE IF HasSuffix(lower, S_dottxt) THEN "text"
        ELSE IF HasSuffix(lower, S_dotrtf) THEN "rtf"
        ELSE IF HasSuffix(lower, S_dotpng) THEN "image"
        ELSE IF HasSuffix(lower, S_dotjpg) \/ HasSuffix(lower, S_dotjpeg) THEN "image"
        ELSE IF HasSuffix(lower, S_dotgif) THEN "image"
        ELSE IF HasSuffix(lower, S_dotpdf) THEN "pdf"
        ELSE IF HasSuffix(lower, S_dotdoc) \/ HasSuffix(lower, S_dotdocx) THEN "document"
        ELSE IF HasSuffix(lower, S_dotxls) \/ HasSuffix(lower, S_dotxlsx) THEN "spreadsheet"
        ELSE "file"

\* imageMIME
imageMIME(name) ==
    LET lower == ToLower(name)
    IN  IF HasSuffix(lower, S_dotjpg) \/ HasSuffix(lower, S_dotjpeg) THEN CT_jpeg
        ELSE IF HasSuffix(lower, S_dotgif) THEN CT_gif
        ELSE IF HasSuffix(lower, S_dotbmp) THEN CT_bmp
        ELSE IF HasSuffix(lower, S_dotwebp) THEN CT_webp
        ELSE IF HasSuffix(lower, S_dotsvg) THEN CT_svgxml
        ELSE S_image \o S_png

\* contentType asking imageMIME for every name without a kind of its own (a
\* faulty variant)
contentTypeByName(name, fileType) ==
    CASE fileType = "html" -> CT_htmlUtf8
      [] fileType = "text" -> CT_textUtf8
      [] fileType = "rtf" -> CT_rtf
      [] fileType \in {"image", "file"} -> imageMIME(name)
      [] fileType = "pdf" -> CT_pdf
      [] OTHER -> CT_octet

\* contentType
contentType(name, fileType) ==
    CASE fileType = "html" -> CT_htmlUtf8
      [] fileType = "text" -> CT_textUtf8
      [] fileType = "rtf" -> CT_rtf
      [] fileType = "image" -> imageMIME(name)
      [] fileType = "pdf" -> CT_pdf
      [] OTHER -> CT_octet

\* handleConvert: the extractedFile made of a converted item
ExtractedFile(item) ==
    [Name |-> item.Name, Size |-> Len(item.Data), Type |-> guessType(item.Name),
     data |-> item.Data]

\* handleConvert: files[i] = extractedFile{...} for every item
ExtractedFiles(items) == [i \in 1..Len(items) |-> ExtractedFile(items[i])]

\* the patterns cmdServe registers on the mux, and the handler of each
Route(path) ==
    IF path = S_apiInfo THEN "info"
    ELSE IF path = S_apiConvert THEN "convert"
    ELSE IF HasPrefix(path, S_apiFiles) THEN "files"
    ELSE IF HasPrefix(path, S_apiZip) THEN "zip"
    ELSE IF HasPrefix(path, S_static) THEN "static"
    ELSE IF path \o <<"/">> \in {S_apiFiles, S_apiZip, S_static} THEN "redirect"
    ELSE "index"

\* ------------------------------------------------------------------------
\* Web server: inputs
\* ------------------------------------------------------------------------

\* the goroutines net/http runs handlers on, two at a time
Procs == {"p1", "p2"}

\* a client: its address and its User-Agent
Clients == {"c1", "c2"}

\* what crypto/rand can put into b; the IDs randomID makes of it
RandomBytes == { [i \in 1..RandomIDBytes |-> b] : b \in {1, 171, 255} }

\* randomID: hex.EncodeToString(b)
SessionIDs == { HexEncode(b) : b \in RandomBytes }

ID_1 == HexEncode([i \in 1..RandomIDBytes |-> 1])

\* 32 hex characters, upper case
ID_upper == <<"A","B","A","B","A","B","A","B","A","B","A","B","A","B","A","B","A","B","A","B","A","B","A","B","A","B","A","B","A","B","A","B">>

\* 16 hex characters
ID_short == <<"0","1","2","3","4","5","6","7","8","9","a","b","c","d","e","f">>

\* 32 characters, one of them no hex digit
ID_nonhex == <<"0","1","2","3","4","5","6","7","8","9","a","b","c","d","e","g","0","1","2","3","4","5","6","7","8","9","a","b","c","d","e","f">>

N_page == <<"p","a","g","e",".","h","t","m","l">>

N_NOTE == <<"N","O","T","E",".","H","T","M">>

N_pic == <<"p","i","c",".","p","n","g">>

N_svg == <<"x",".","s","v","g">>

N_sub == <<"a","/","b",".","t","x","t">>

N_quote == <<"q","\"",".","p","d","f">>

N_back == <<"c","\\","d">>

N_missing == <<"n","o","n","e",".","t","x","t">>

N_pic2 == <<"p","i","c","_","2",".","p","n","g">>

N_pic22 == <<"p","i","c","_","2","_","2",".","p","n","g">>

\* a name with a line break and a DEL in it
N_ctrl == <<"e","\r","\n","f","<DEL>">>

D_html == <<"<","b",">">>

D_bin == <<"x","y">>

\* converted items (formats.ConvertedFile): Name and Data
Item(name, data) == [Name |-> name, Data |-> data]

\* ------------------------------------------------------------------------
\* Package formats: the registry and the names of a result
\* ------------------------------------------------------------------------

\* a decoder of the registry: the first bytes of its streams and its extensions
Decoder(name, magic, exts) == [name |-> name, magic |-> magic, exts |-> exts]

NoDecoder == Decoder("nil", <<>>, {})

\* the TNEF decoder, registered by the init of formats/tnef
TNEF == Decoder("tnef", <<120, 159, 62, 34>>, {<<".","d","a","t">>})

\* a second format, as a package added under formats/ registers it
OtherFormat == Decoder("other", <<208, 207, 17, 224>>, {<<".","m","s","g">>, <<".","d","a","t">>})

\* matches_magic: the data starts with the magic of the decoder
MatchesMagic(d, head) == Len(head) >= Len(d.magic) /\ SubSeq(head, 1, Len(d.magic)) = d.magic

\* matches_extension: the file name ends with an extension of the decoder
MatchesExtension(d, name) == \E e \in d.exts : HasSuffix(name, e)

\* Detect with the extension tested before the magic (a faulty variant)
DetectByExtension(reg, name, head) ==
    LET byMagic == { i \in 1..Len(reg) : MatchesMagic(reg[i], head) }
        byExt == { i \in 1..Len(reg) : MatchesExtension(reg[i], name) }
    IN  IF byExt # {} THEN reg[SetMin(byExt)]
        ELSE IF byMagic # {} THEN reg[SetMin(byMagic)]
        ELSE NoDecoder

\* formats.Detect(name, data): the first registered decoder whose magic matches;
\* if none, the first whose extension matches; else nil
Detect(reg, name, head) ==
    LET byMagic == { i \in 1..Len(reg) : MatchesMagic(reg[i], head) }
        byExt == { i \in 1..Len(reg) : MatchesExtension(reg[i], name) }
    IN  IF byMagic # {} THEN reg[SetMin(byMagic)]
        ELSE IF byExt # {} THEN reg[SetMin(byExt)]
        ELSE NoDecoder

\* the place of the extension in a name: the last dot (0: none)
ExtAt(name) ==
    LET dots == { i \in 1..Len(name) : name[i] = "." } IN IF dots = {} THEN 0 ELSE SetMax(dots)

\* the name with _n put before its extension
Numbered(name, n) ==
    LET k == ExtAt(name)
        tag == <<"_", Digits[n + 1]>>
    IN  IF k = 0 THEN name \o tag
        ELSE SubSeq(name, 1, k - 1) \o tag \o SubSeq(name, k, Len(name))

\* the first of name, name_2, name_3, ... that no item of done has
RECURSIVE FreeName(_, _, _)
FreeName(done, name, n) ==
    LET try == IF n = 1 THEN name ELSE Numbered(name, n)
    IN  IF \A i \in 1..Len(done) : done[i].Name # try THEN try
        ELSE FreeName(done, name, n + 1)

\* the names of a result are made unique: an item whose name an earlier item
\* has gets _2, _3, ... before its extension
RECURSIVE UniqueNames(_)
UniqueNames(items) ==
    IF items = <<>> THEN <<>>
    ELSE LET done == UniqueNames(SubSeq(items, 1, Len(items) - 1))
             it == items[Len(items)]
         IN  Append(done, [it EXCEPT !.Name = FreeName(done, it.Name, 1)])

\* the name of an uploaded or converted file, and the first bytes of its data
F_winmail == <<"w","i","n","m","a","i","l",".","d","a","t">>

F_noext == <<"m","a","i","l">>

F_msg == <<"m",".","m","s","g">>

F_text == <<"r","e","a","d","m","e",".","t","x","t">>

\* the first bytes of a TNEF stream, of a stream of the second format, of a text
B_tnef == <<120, 159, 62, 34>>

B_other == <<208, 207, 17, 224>>

B_text == <<104, 105>>

\* an upload: whether the form has a part named file, the file name of the part
\* and the first bytes of its data, the bytes of the multipart form up to its
\* closing boundary, the bytes of the whole request body, whether the part can be
\* read, the bytes of the part, and the result of Convert (an error or the items)
Upload(part, name, head, formLen, bodyLen, readable, dataLen, conv, items) ==
    [part |-> part, name |-> name, head |-> head, formLen |-> formLen,
     bodyLen |-> bodyLen, readable |-> readable,
     dataLen |-> dataLen, conv |-> conv, items |-> items]

Up_none == Upload(FALSE, <<>>, <<>>, 0, 0, TRUE, 0, "error", <<>>)

Up_huge == Upload(TRUE, F_winmail, B_tnef, MaxUploadBytes + 201, MaxUploadBytes + 201, TRUE,
                  MaxUploadBytes + 1, "ok", <<Item(N_page, D_html)>>)

Up_trailing == Upload(TRUE, F_winmail, B_tnef, 200, MaxUploadBytes + 1, TRUE, 100, "ok",
                      <<Item(N_pic, D_bin)>>)

Up_full == Upload(TRUE, F_winmail, B_tnef, MaxUploadBytes, MaxUploadBytes, TRUE,
                  MaxUploadBytes - 200, "error", <<>>)

Up_unreadable == Upload(TRUE, F_winmail, B_tnef, 200, 200, FALSE, 100, "ok",
                        <<Item(N_page, D_html)>>)

\* a text file: neither the first bytes nor the name are those of a format
Up_unknown == Upload(TRUE, F_text, B_text, 200, 200, TRUE, 100, "ok", <<Item(N_page, D_html)>>)

\* a file named winmail.dat that is no TNEF stream
Up_badTNEF == Upload(TRUE, F_winmail, B_text, 200, 200, TRUE, 100, "error", <<>>)

Up_empty == Upload(TRUE, F_winmail, B_tnef, 200, 200, TRUE, 100, "ok", <<>>)

\* a TNEF stream under a name without extension
Up_mail == Upload(TRUE, F_noext, B_tnef, 200, 200, TRUE, 100, "ok",
                  <<Item(N_page, D_html), Item(N_pic, D_bin)>>)

Up_odd == Upload(TRUE, F_winmail, B_tnef, 200, 200, TRUE, 100, "ok",
                 <<Item(N_sub, D_bin), Item(N_quote, D_bin), Item(N_ctrl, D_bin),
                   Item(N_NOTE, D_html), Item(N_svg, D_bin), Item(N_back, D_bin)>>)

\* a message with two attachments of one name and a third named like the second
\* after its renaming
Up_twins == Upload(TRUE, F_winmail, B_tnef, 200, 200, TRUE, 100, "ok",
                   UniqueNames(<<Item(N_pic, D_bin), Item(N_pic, D_html),
                                 Item(N_pic2, D_bin)>>))

AllUploads ==
    { Up_none, Up_huge, Up_trailing, Up_full, Up_unreadable, Up_unknown, Up_badTNEF,
      Up_empty, Up_mail, Up_odd, Up_twins }

\* an HTTP request
Request(method, path, client, upload) ==
    [method |-> method, path |-> path, client |-> client, upload |-> upload]

NoReq == Request("", <<>>, "", Up_none)

FilePath(sid, name) == S_apiFiles \o sid \o <<"/">> \o name

ZipPath(sid) == S_apiZip \o sid

P_index == <<"/">>

P_other == <<"/","n","o","p","e">>

P_filesBare == <<"/","a","p","i","/","f","i","l","e","s">>

P_css == <<"/","s","t","a","t","i","c","/","c","s","s","/","a","p","p",".","c","s","s">>

P_noasset == <<"/","s","t","a","t","i","c","/","x">>

\* the files embedded under static/ that the requests of the model ask for
StaticAssets == { P_css }

\* requests to the rate limiter's handler: a POST without a file, and a GET
LimiterRequests ==
    { Request("POST", S_apiConvert, "c1", Up_none),
      Request("GET", S_apiConvert, "c1", Up_none) }

\* the names of the files of the uploads, and one that no upload has
RequestNames ==
    { N_page, N_pic, N_sub, N_quote, N_ctrl, N_NOTE, N_svg, N_back, N_missing,
      N_pic2, N_pic22 }

\* requests to every route, with every upload
HandlerRequests ==
    { Request("POST", S_apiConvert, "c1", u) : u \in AllUploads }
      \cup { Request("GET", S_apiConvert, "c1", Up_mail) }
      \cup { Request("GET", FilePath(sid, n), "c1", Up_none) :
               sid \in {ID_1}, n \in RequestNames }
      \cup { Request("GET", FilePath(sid, N_page), "c1", Up_none) :
               sid \in {ID_upper, ID_short, ID_nonhex} }
      \cup { Request("GET", S_apiFiles \o ID_1, "c1", Up_none) }
      \cup { Request("GET", ZipPath(sid), "c1", Up_none) :
               sid \in {ID_1, ID_upper, ID_short, ID_nonhex} }
      \cup { Request("GET", p, "c1", Up_none) :
               p \in {P_index, P_other, P_filesBare, P_css, P_noasset, S_apiInfo} }

\* the IDs crypto/rand gives while the clock runs
ClockIDs == { HexEncode([i \in 1..RandomIDBytes |-> b]) : b \in {1, 171} }

\* requests of two clients for the files of an upload
SessionRequests ==
    { Request("POST", S_apiConvert, "c1", Up_mail) }
      \cup { Request("GET", FilePath(sid, N_page), c, Up_none) :
               sid \in ClockIDs, c \in Clients }
      \cup { Request("GET", ZipPath(ID_1), "c2", Up_none) }

\* two uploads with different contents and a download of the archive
StoreRequests ==
    { Request("POST", S_apiConvert, "c1", Up_mail),
      Request("POST", S_apiConvert, "c2", Up_twins),
      Request("GET", ZipPath(ID_1), "c2", Up_none) }

\* the moments at which requests arrive: at the start, and at the first tick
\* after the first sessions have expired
StoreTimes == {0, SessionTTL + Minute}

\* ------------------------------------------------------------------------
\* Command line: paths and inputs
\* ------------------------------------------------------------------------

\* the elements of a path that count: not empty, not "."
Elements(path) == SelectSeq(Split(path, "/"), LAMBDA e : e # <<>> /\ e # <<".">>)

\* filepath.Clean, element by element: ".." removes the element before it, is
\* dropped at the root, and is kept at the start of a relative path
RECURSIVE CleanFrom(_, _, _, _)
CleanFrom(els, i, rooted, acc) ==
    IF i > Len(els) THEN acc
    ELSE IF els[i] # <<".", ".">> THEN CleanFrom(els, i + 1, rooted, Append(acc, els[i]))
    ELSE IF acc # <<>> /\ acc[Len(acc)] # <<".", ".">>
    THEN CleanFrom(els, i + 1, rooted, SubSeq(acc, 1, Len(acc) - 1))
    ELSE IF rooted THEN CleanFrom(els, i + 1, rooted, acc)
    ELSE CleanFrom(els, i + 1, rooted, Append(acc, els[i]))

\* filepath.Clean: whether the path is rooted, and its elements
Clean(path) ==
    LET rooted == path # <<>> /\ path[1] = "/"
    IN  [rooted |-> rooted, els |-> CleanFrom(Elements(path), 1, rooted, <<>>)]

\* filepath.Join(dir, name): the elements that are not empty, joined by a
\* separator, and cleaned
Join(dir, name) ==
    Clean(IF dir = <<>> THEN name
          ELSE IF name = <<>> THEN dir
          ELSE dir \o <<"/">> \o name)

\* converted files (formats.ConvertedFile): Name, Data and Category
ConvertedFile(name, data, category) == [Name |-> name, Data |-> data, Category |-> category]

N_body == <<"b","o","d","y",".","h","t","m","l">>

N_bodyrtf == <<"b","o","d","y",".","r","t","f">>

N_embedded == <<"e","_","1","/","b","o","d","y",".","t","x","t">>

N_parent == <<".",".","/","e",".","t","x","t">>

N_dots == <<".",".">>

N_deep == <<"a","/",".",".","/",".",".","/","x">>

N_rooted == <<"/","e","t","c","/","x">>

\* an input file: whether os.ReadFile can read it, its base name and first
\* bytes, the result of Convert (an error or the files)
InputFile(readable, name, head, conv, files) ==
    [readable |-> readable, name |-> name, head |-> head, conv |-> conv, files |-> files]

NoInput == InputFile(FALSE, <<>>, <<>>, "error", <<>>)

In_missing == InputFile(FALSE, F_winmail, B_tnef, "ok", <<ConvertedFile(N_body, D_html, "body")>>)

In_text == InputFile(TRUE, F_text, B_text, "ok", <<ConvertedFile(N_body, D_html, "body")>>)

In_broken == InputFile(TRUE, F_winmail, B_text, "error", <<>>)

In_nothing == InputFile(TRUE, F_noext, B_tnef, "ok", <<>>)

\* a message with two bodies, two attachments of one name and an embedded message
In_mail ==
    InputFile(TRUE, F_winmail, B_tnef, "ok",
              UniqueNames(<<ConvertedFile(N_body, D_html, "body"),
                            ConvertedFile(N_pic, D_bin, "attachment"),
                            ConvertedFile(N_embedded, D_bin, "embedded"),
                            ConvertedFile(N_bodyrtf, D_bin, "body"),
                            ConvertedFile(N_pic, D_html, "attachment")>>))

\* a message without attachments
In_note == InputFile(TRUE, F_winmail, B_tnef, "ok", <<ConvertedFile(N_body, D_html, "body")>>)

\* a message whose attachments and embedded body have names with separators and
\* .. elements
In_paths ==
    InputFile(TRUE, F_noext, B_tnef, "ok",
              <<ConvertedFile(N_rooted, D_bin, "attachment"),
                ConvertedFile(N_parent, D_bin, "attachment"),
                ConvertedFile(N_deep, D_bin, "embedded"),
                ConvertedFile(N_dots, D_bin, "attachment")>>)

InputFiles == { In_missing, In_text, In_broken, In_nothing, In_mail, In_note, In_paths }

\* output directories
Dir_out == <<"o","u","t">>

Dir_up == <<".",".","/","o">>

Dir_abs == <<"/","t","m","p","/","o","/">>

\* the arguments after the program name: the command, the file, the directory
CliArgs ==
    { <<>> } \cup { <<c>> : c \in {"help", "bogus", "extract"} }
      \cup { <<c, f>> : c \in {"extract", "body", "dump"}, f \in InputFiles }
      \cup { <<c, f, d>> : c \in {"extract", "body", "dump"}, f \in {In_mail, In_paths},
                           d \in {Dir_out, Dir_up, Dir_abs} }

\* ------------------------------------------------------------------------
\* Web server: records of the state
\* ------------------------------------------------------------------------

\* the header of a response: "" or <<>> is a header that is not set
NoHdr ==
    [XContentTypeOptions |-> "", XFrameOptions |-> "", ReferrerPolicy |-> "",
     PermissionsPolicy |-> "", XDNSPrefetchControl |-> "", ContentType |-> <<>>,
     ContentSecurityPolicy |-> <<>>, ContentDisposition |-> <<>>, CacheControl |-> "",
     RetryAfter |-> "", Location |-> <<>>]

\* a response: status, header, the message of an error, the bytes of a file, the
\* files of a zip archive or of a convertResponse, the sessionId of a convertResponse
NoRes ==
    [status |-> 0, hdr |-> NoHdr, msg |-> "", data |-> <<>>, files |-> <<>>, sid |-> <<>>]

\* a handler goroutine: where it is, its request, the token count allow() loaded,
\* the session ID it made or asked for, the files it converted or got from the
\* store, and its response. age and owner are those of the session get returned;
\* took is the number of tokens allow() took for it, read the number of bytes of
\* the request body the handler consumed, passed the number it handed to Detect
\* and Convert (-1: none), dec the decoder formats.Detect returned to it
IdleH ==
    [pc |-> "idle", req |-> NoReq, cur |-> 0, sid |-> <<>>, files |-> <<>>,
     age |-> 0, owner |-> "", took |-> 0, read |-> 0, passed |-> -1, dec |-> NoDecoder,
     res |-> NoRes]

NoRefill == [pc |-> "wait", cur |-> 0]

NoStat == [granted |-> 0, ticks |-> 0, uploads |-> 0]

\* sync.RWMutex of the session store, unlocked: no writer, no reader
Unlocked == [writer |-> "", readers |-> {}]

\* cmdServe: where the main goroutine is ("serving": at <-stop), how often each
\* done channel was closed, whether the cleanup goroutine runs, and whether all
\* handlers had returned when srv.Shutdown returned
Serving ==
    [pc |-> "serving", storeDone |-> 0, limiterDone |-> 0, cleaner |-> "run",
     drained |-> FALSE]

\* a run of the command line: where it is, the command, the input file, the
\* output directory, the files to write and the next of them, the calls of
\* writeFile made (path, name, whether the write succeeded), the decoder
\* formats.Detect returned, the exit status (-1: the process runs)
NoCli ==
    [pc |-> "idle", cmd |-> "", file |-> NoInput, dir |-> <<>>, files |-> <<>>,
     next |-> 1, wrote |-> <<>>, dec |-> NoDecoder, exit |-> -1]

\* the last call of guessType: the name and the result
NoKind == [name |-> <<>>, tag |-> "", ct |-> <<>>]

\* ------------------------------------------------------------------------
\* State
\* ------------------------------------------------------------------------

VARIABLES
    html,       \* the html argument of the running (or last) call
    pos,        \* ReplaceAllFunc: where the search for the next match starts
    out,        \* ReplaceAllFunc: the result built so far
    cache,      \* the cache map the call works on
    cacheArg,   \* "nil": the caller passed nil; "map": the caller's own map
    pc,         \* "idle", "scan", "fetch", "get", "resp"
    cur,        \* the match the callback is working on
    rawURL,     \* the URL the client requests (the Location after a redirect)
    hops,       \* redirects followed in this fetch
    looked,     \* the isPrivateHost call of this fetch: the host and the lookup's answer
    nreq,       \* HTTP requests sent in this fetch
    conn,       \* the last connection the client made in this fetch
    resp,       \* the response inlineClient.Get returned
    calls,      \* calls made so far
    reapplied,  \* the running call got the previous call's result and cache
    fetchLog,   \* the fetchImage calls made on this cache map: URL and outcome
    last,       \* what happened to the last match the callback finished
    supplied,   \* the entries the caller had put into the cache map it passed
    now,        \* the time since the server started, in thirds of a minute
    nextSweep,  \* the time of the next tick of the cleanup ticker
    sessions,   \* sessionStore.sessions: ID -> files, created, and the client
    tokens,     \* rateLimiter.tokens
    refill,     \* the refill goroutine: where it is and the count it loaded
    hnd,        \* the handler goroutines
    stat,       \* counts: allow() calls that returned true, refill ticks, uploads
    registry,   \* package formats: the registered decoders, in order
    serve,      \* cmdServe: the main goroutine, the done channels, the cleanup goroutine
    cli,        \* a run of converter extract, body or dump
    kind,       \* the last call of guessType
    mu          \* sessionStore.mu: who holds the write lock, who holds read locks

imgVars ==
    <<html, pos, out, cache, cacheArg, pc, cur, rawURL, hops, looked, nreq, conn,
      resp, calls, reapplied, fetchLog, last>>

srvVars == <<now, nextSweep, sessions, tokens, refill, hnd, stat>>

\* the registry, the main goroutine of the server, the command line, guessType
cmdVars == <<registry, serve, cli, kind, mu>>

vars == <<imgVars, supplied, srvVars, cmdVars>>

NoConn == [made |-> FALSE, host |-> <<>>, ip |-> <<>>, hop |-> 0]

NoResp == [got |-> FALSE, status |-> 0, ct |-> <<>>]

NoLookup == [done |-> FALSE, host |-> <<>>, asked |-> FALSE, err |-> FALSE, ips |-> {}]

\* the record of isPrivateHost(host): net.LookupIP is asked only for a name the
\* first test lets through
Looked(host, answer) ==
    IF BlockedName(host)
    THEN [done |-> TRUE, host |-> host, asked |-> FALSE, err |-> FALSE, ips |-> {}]
    ELSE [done |-> TRUE, host |-> host, asked |-> TRUE, err |-> answer.err, ips |-> answer.ips]

NoLast ==
    [via |-> "none", url |-> <<>>, uri |-> <<>>, tag |-> <<>>, piece |-> <<>>,
     failed |-> FALSE, looked |-> NoLookup, nreq |-> 0, resp |-> NoResp, bodyLen |-> 0]

EmptyMap == [u \in {} |-> <<>>]

Put(mp, k, v) == [x \in DOMAIN mp \cup {k} |-> IF x = k THEN v ELSE mp[x]]

Init ==
    /\ html = <<>>
    /\ pos = 1
    /\ out = <<>>
    /\ cache = EmptyMap
    /\ cacheArg = "nil"
    /\ pc = "idle"
    /\ cur = NoMatch
    /\ rawURL = <<>>
    /\ hops = 0
    /\ looked = NoLookup
    /\ nreq = 0
    /\ conn = NoConn
    /\ resp = NoResp
    /\ calls = 0
    /\ reapplied = FALSE
    /\ fetchLog = <<>>
    /\ last = NoLast
    /\ supplied = EmptyMap
    /\ now = 0
    /\ nextSweep = Minute
    /\ sessions = EmptyMap
    /\ tokens = BurstTokens
    /\ refill = NoRefill
    /\ hnd = [p \in Procs |-> IdleH]
    /\ stat = NoStat
    /\ registry = <<TNEF>>
    /\ serve = Serving
    /\ cli = NoCli
    /\ kind = NoKind
    /\ mu = Unlocked

\* ------------------------------------------------------------------------
\* InlineExternalImages
\* ------------------------------------------------------------------------

\* the cache write without the cache[url] = "" of a failed fetch (a faulty variant)
CacheStoreOnlySuccess(c, url, dataURI) ==
    IF dataURI = <<>> THEN c ELSE Put(c, url, dataURI)

\* the cache write that makes a new map of the one entry (a faulty variant)
CacheStoreAlone(c, url, dataURI) == Put(EmptyMap, url, dataURI)

\* cache[url] = "" / cache[url] = dataURI
CacheStore(c, url, dataURI) == Put(c, url, dataURI)

\* the callback result that drops an unresolved tag (a faulty variant)
ReplacementDropUnresolved(s, m, dataURI) ==
    IF dataURI = <<>> THEN <<>> ELSE Prefix(s, m) \o dataURI \o Suffix(s, m)

\* what the callback returns for the match m: the match itself, or
\* prefix + dataURI + suffix
Replacement(s, m, dataURI) ==
    IF dataURI = <<>> THEN Whole(s, m) ELSE Prefix(s, m) \o dataURI \o Suffix(s, m)

\* ReplaceAllFunc copies the text before the match and the callback's result
Emit(m, dataURI) ==
    /\ out' = out \o SubSeq(html, pos, m.p - 1) \o Replacement(html, m, dataURI)
    /\ pos' = m.r + 1

FetchIdle ==
    /\ rawURL' = <<>>
    /\ hops' = 0
    /\ looked' = NoLookup
    /\ nreq' = 0
    /\ conn' = NoConn
    /\ resp' = NoResp

\* A caller calls InlineExternalImages(h, arg): arg is "nil", "new" (a map the
\* caller has just made) or "same" (the map of the caller's previous call).
Call(h, arg) ==
    /\ pc = "idle"
    /\ calls < MaxCalls
    /\ arg = "same" => (calls > 0 /\ cacheArg = "map")
    /\ calls' = calls + 1
    /\ html' = h
    /\ pos' = 1
    /\ out' = <<>>
    /\ cacheArg' = IF arg = "nil" THEN "nil" ELSE "map"
    /\ cache' = IF arg = "same" THEN cache ELSE EmptyMap
    /\ fetchLog' = IF arg = "same" THEN fetchLog ELSE <<>>
    /\ reapplied' = (calls > 0 /\ h = out /\ (arg = "same" \/ (arg = "nil" /\ cacheArg = "nil")))
    /\ pc' = "scan"
    /\ cur' = NoMatch
    /\ last' = NoLast
    /\ FetchIdle

\* no further match: ReplaceAllFunc copies the rest and the call returns
Return ==
    /\ pc = "scan"
    /\ FindMatch(html, pos) = NoMatch
    /\ out' = out \o SubSeq(html, pos, Len(html))
    /\ pos' = Len(html) + 1
    /\ pc' = "idle"
    /\ UNCHANGED <<html, cache, cacheArg, cur, rawURL, hops, looked, nreq, conn, resp,
                   calls, reapplied, fetchLog, last>>

\* the callback returning the match and noting the URL in the cache (a faulty
\* variant)
KeepOtherNoted ==
    LET m == FindMatch(html, pos)
    IN  /\ pc = "scan"
        /\ m # NoMatch
        /\ ~IsHTTP(Url(html, m)) \/ HasPrefix(Url(html, m), S_data)
        /\ Emit(m, <<>>)
        /\ cache' = Put(cache, Url(html, m), <<>>)
        /\ last' = [NoLast EXCEPT !.via = "skip", !.url = Url(html, m),
                                  !.tag = Whole(html, m), !.piece = Whole(html, m)]
        /\ UNCHANGED <<html, cacheArg, pc, cur, rawURL, hops, looked, nreq, conn,
                       resp, calls, reapplied, fetchLog>>

\* the callback returns the match: the URL is not http:// or https://
KeepOther ==
    LET m == FindMatch(html, pos)
    IN  /\ pc = "scan"
        /\ m # NoMatch
        /\ ~IsHTTP(Url(html, m)) \/ HasPrefix(Url(html, m), S_data)
        /\ Emit(m, <<>>)
        /\ last' = [NoLast EXCEPT !.via = "skip", !.url = Url(html, m),
                                  !.tag = Whole(html, m), !.piece = Whole(html, m)]
        /\ UNCHANGED <<html, cache, cacheArg, pc, cur, rawURL, hops, looked, nreq, conn,
                       resp, calls, reapplied, fetchLog>>

\* the URL was seen before: the callback uses the cache entry
UseCache ==
    LET m == FindMatch(html, pos)
        url == Url(html, m)
    IN  /\ pc = "scan"
        /\ m # NoMatch
        /\ IsHTTP(url) /\ ~HasPrefix(url, S_data)
        /\ url \in DOMAIN cache
        /\ Emit(m, cache[url])
        /\ last' = [NoLast EXCEPT !.via = "cache", !.url = url, !.uri = cache[url],
                                  !.tag = Whole(html, m),
                                  !.piece = Replacement(html, m, cache[url])]
        /\ UNCHANGED <<html, cache, cacheArg, pc, cur, rawURL, hops, looked, nreq, conn,
                       resp, calls, reapplied, fetchLog>>

\* the URL was not seen before: the callback calls fetchImage(url)
StartFetch ==
    LET m == FindMatch(html, pos)
        url == Url(html, m)
    IN  /\ pc = "scan"
        /\ m # NoMatch
        /\ IsHTTP(url) /\ ~HasPrefix(url, S_data)
        /\ url \notin DOMAIN cache
        /\ cur' = m
        /\ rawURL' = url
        /\ pc' = "fetch"
        /\ hops' = 0
        /\ looked' = NoLookup
        /\ nreq' = 0
        /\ conn' = NoConn
        /\ resp' = NoResp
        /\ UNCHANGED <<html, pos, out, cache, cacheArg, calls, reapplied, fetchLog, last>>

\* fetchImage has returned (data of n bytes, contentType ct, err): the callback
\* fills the cache and returns the match or the rewritten tag
Finish(n, ct, err, bodyLen) ==
    LET url == Url(html, cur)
        dataURI == IF err \/ n = 0 THEN <<>> ELSE DataURI(ct, n)
    IN  /\ cache' = CacheStore(cache, url, dataURI)
        /\ Emit(cur, dataURI)
        /\ pc' = "scan"
        /\ cur' = NoMatch
        /\ fetchLog' = Append(fetchLog, [url |-> url, uri |-> dataURI])
        /\ last' = [via |-> "fetch", url |-> url, uri |-> dataURI,
                    tag |-> Whole(html, cur),
                    piece |-> Replacement(html, cur, dataURI),
                    failed |-> err, looked |-> looked', nreq |-> nreq', resp |-> resp,
                    bodyLen |-> bodyLen]
        /\ rawURL' = <<>>
        /\ hops' = 0
        /\ conn' = NoConn
        /\ resp' = NoResp
        /\ UNCHANGED <<html, cacheArg, calls, reapplied>>

\* ------------------------------------------------------------------------
\* fetchImage
\* ------------------------------------------------------------------------

\* url.Parse(rawURL) fails: return nil, "", err
FetchParseError ==
    /\ pc = "fetch"
    /\ ParseFails(rawURL)
    /\ looked' = looked
    /\ nreq' = nreq
    /\ Finish(0, <<>>, TRUE, 0)

\* isPrivateHost(host) is true: return nil, "", nil
FetchBlocked(dns) ==
    LET host == Hostname(rawURL)
        ans == LookupIP(host, dns)
    IN  /\ pc = "fetch"
        /\ ~ParseFails(rawURL)
        /\ isPrivateHost(host, ans)
        /\ looked' = Looked(host, ans)
        /\ nreq' = nreq
        /\ Finish(0, <<>>, FALSE, 0)

\* isPrivateHost(host) is false: fetchImage goes on to inlineClient.Get(rawURL)
FetchAllowed(dns) ==
    LET host == Hostname(rawURL)
        ans == LookupIP(host, dns)
    IN  /\ pc = "fetch"
        /\ ~ParseFails(rawURL)
        /\ ~isPrivateHost(host, ans)
        /\ looked' = Looked(host, ans)
        /\ pc' = "get"
        /\ UNCHANGED <<html, pos, out, cache, cacheArg, cur, rawURL, hops, nreq, conn,
                       resp, calls, reapplied, fetchLog, last>>

\* inlineClient.Get returns an error (the client's own lookup or dial fails, the
\* 5 s timeout passes, the redirect limit is reached): return nil, "", err
GetError ==
    /\ pc = "get"
    /\ looked' = looked
    /\ nreq' = nreq
    /\ Finish(0, <<>>, TRUE, 0)

\* the addresses the client can dial for host: it resolves the host itself,
\* and the resolver answers with one of Dns
DialIPs(host, Dns) == UNION { LookupIP(host, dns).ips : dns \in Dns }

\* the client dials ip and sends the request for rawURL
Dial(ip) ==
    /\ conn' = [made |-> TRUE, host |-> Hostname(rawURL), ip |-> ip, hop |-> hops]
    /\ nreq' = nreq + 1

\* the server answers with a redirect and the client follows the Location
GetRedirect(Dns, Targets) ==
    /\ pc = "get"
    /\ hops < RedirectLimit
    /\ hops < MaxHops
    /\ \E ip \in DialIPs(Hostname(rawURL), Dns) :
          /\ Dial(ip)
          /\ \E target \in Targets :
                /\ ~ParseFails(target)
                /\ rawURL' = target
    /\ hops' = hops + 1
    /\ UNCHANGED <<html, pos, out, cache, cacheArg, pc, cur, looked, resp, calls,
                   reapplied, fetchLog, last>>

\* the server answers with a response the client returns to fetchImage
GetResponse(Dns, Statuses, CTs) ==
    /\ pc = "get"
    /\ \E ip \in DialIPs(Hostname(rawURL), Dns) :
          /\ Dial(ip)
          /\ \E status \in Statuses, ct \in CTs :
                resp' = [got |-> TRUE, status |-> status, ct |-> ct]
    /\ pc' = "resp"
    /\ UNCHANGED <<html, pos, out, cache, cacheArg, cur, rawURL, hops, looked, calls,
                   reapplied, fetchLog, last>>

\* the response test without the Content-Type test (a faulty variant)
AcceptedAnyType(status, ct) == status = StatusOK

\* resp.StatusCode == http.StatusOK and the Content-Type starts with "image/"
Accepted(status, ct) == status = StatusOK /\ HasPrefix(ct, S_image)

\* the status or the Content-Type is refused: return nil, "", nil
RespRefused ==
    /\ pc = "resp"
    /\ ~Accepted(resp.status, resp.ct)
    /\ looked' = looked
    /\ nreq' = nreq
    /\ Finish(0, <<>>, FALSE, 0)

\* io.ReadAll fails (the connection breaks, the timeout passes): return nil, "", err
ReadError(bodyLen) ==
    /\ pc = "resp"
    /\ Accepted(resp.status, resp.ct)
    /\ looked' = looked
    /\ nreq' = nreq
    /\ Finish(0, <<>>, TRUE, bodyLen)

\* io.ReadAll(io.LimitReader(resp.Body, 5<<20)) of a body of bodyLen bytes:
\* return data, ct, nil
ReadBody(bodyLen) ==
    /\ pc = "resp"
    /\ Accepted(resp.status, resp.ct)
    /\ looked' = looked
    /\ nreq' = nreq
    /\ Finish(Min(bodyLen, MaxImageBytes), resp.ct, FALSE, bodyLen)

\* ------------------------------------------------------------------------
\* Web server: middleware and helpers
\* ------------------------------------------------------------------------

\* securityHeaders without the X-Frame-Options header (a faulty variant)
securityHeadersNoFrame(hdr) ==
    [hdr EXCEPT !.XContentTypeOptions = "nosniff",
                !.ReferrerPolicy = "no-referrer",
                !.PermissionsPolicy = "camera=(), microphone=(), geolocation=()",
                !.XDNSPrefetchControl = "off"]

\* securityHeaders: the headers set before the mux is called
securityHeaders(hdr) ==
    [hdr EXCEPT !.XContentTypeOptions = "nosniff",
                !.XFrameOptions = "DENY",
                !.ReferrerPolicy = "no-referrer",
                !.PermissionsPolicy = "camera=(), microphone=(), geolocation=()",
                !.XDNSPrefetchControl = "off"]

\* http.Error
httpError(res, msg, code) ==
    [res EXCEPT !.status = code, !.msg = msg, !.hdr.ContentType = CT_textUtf8,
                !.hdr.XContentTypeOptions = "nosniff"]

\* http.NotFound
NotFound(res) == httpError(res, "404 page not found", StatusNotFound)

\* jsonError
jsonError(res, msg, code) ==
    [res EXCEPT !.status = code, !.msg = msg, !.hdr.ContentType = CT_json]

\* the handler of p has written its response and returned
Respond(p, res) == hnd' = [hnd EXCEPT ![p].pc = "done", ![p].res = res]

\* a request arrives on a free goroutine: requestLogger, securityHeaders and the
\* mux run, and the handler of the pattern that matches the path is entered
Arrive(p, r) ==
    /\ serve.pc = "serving"
    /\ hnd[p].pc \in {"idle", "done"}
    /\ r.upload.part => stat.uploads < MaxUploads
    /\ hnd' = [hnd EXCEPT ![p] = [IdleH EXCEPT !.pc = Route(r.path), !.req = r,
                                          !.res.hdr = securityHeaders(NoHdr)]]
    /\ stat' = [stat EXCEPT !.uploads = IF r.upload.part THEN @ + 1 ELSE @]
    /\ UNCHANGED <<now, nextSweep, sessions, tokens, refill>>

\* ------------------------------------------------------------------------
\* Web server: rateLimiter
\* ------------------------------------------------------------------------

\* refill, on a tick: cur := atomic.LoadInt64(&rl.tokens)
RefillLoad ==
    /\ refill.pc = "wait"
    /\ stat.ticks < MaxTicks
    /\ refill' = [pc |-> "loaded", cur |-> tokens]
    /\ UNCHANGED <<now, nextSweep, sessions, tokens, hnd, stat>>

\* refill storing cur + refillRate without the cap (a faulty variant)
RefillStoreNoCap ==
    /\ refill.pc = "loaded"
    /\ tokens' = refill.cur + RefillRate
    /\ refill' = NoRefill
    /\ stat' = [stat EXCEPT !.ticks = @ + 1]
    /\ UNCHANGED <<now, nextSweep, sessions, hnd>>

\* refill: atomic.StoreInt64(&rl.tokens, min(cur + refillRate, maxTokens))
RefillStore ==
    /\ refill.pc = "loaded"
    /\ tokens' = Min(refill.cur + RefillRate, BurstTokens)
    /\ refill' = NoRefill
    /\ stat' = [stat EXCEPT !.ticks = @ + 1]
    /\ UNCHANGED <<now, nextSweep, sessions, hnd>>

\* allow and the 429 answer without the Retry-After header (a faulty variant)
AllowLoadNoRetryAfter(p) ==
    /\ hnd[p].pc = "allow"
    /\ IF tokens <= 0
       THEN Respond(p, jsonError(hnd[p].res, "Too many requests -- try again shortly",
                                 StatusTooManyRequests))
       ELSE hnd' = [hnd EXCEPT ![p].pc = "cas", ![p].cur = tokens]
    /\ UNCHANGED <<now, nextSweep, sessions, tokens, refill, stat>>

\* allow: cur := atomic.LoadInt64(&rl.tokens); with cur <= 0 it returns false and
\* handleConvert answers 429
AllowLoad(p) ==
    /\ hnd[p].pc = "allow"
    /\ IF tokens <= 0
       THEN Respond(p, jsonError([hnd[p].res EXCEPT !.hdr.RetryAfter = "1"],
                                 "Too many requests -- try again shortly",
                                 StatusTooManyRequests))
       ELSE hnd' = [hnd EXCEPT ![p].pc = "cas", ![p].cur = tokens]
    /\ UNCHANGED <<now, nextSweep, sessions, tokens, refill, stat>>

\* allow storing cur-1 without comparing (a faulty variant)
AllowSwap(p) ==
    /\ hnd[p].pc = "cas"
    /\ tokens' = hnd[p].cur - 1
    /\ stat' = [stat EXCEPT !.granted = @ + 1]
    /\ hnd' = [hnd EXCEPT ![p].pc = "read", ![p].took = 1]
    /\ UNCHANGED <<now, nextSweep, sessions, refill>>

\* allow: atomic.CompareAndSwapInt64(&rl.tokens, cur, cur-1); it returns true
\* when the swap was made and loads again when it was not
AllowCAS(p) ==
    /\ hnd[p].pc = "cas"
    /\ IF tokens = hnd[p].cur
       THEN /\ tokens' = hnd[p].cur - 1
            /\ stat' = [stat EXCEPT !.granted = @ + 1]
            /\ hnd' = [hnd EXCEPT ![p].pc = "read", ![p].took = 1]
       ELSE /\ hnd' = [hnd EXCEPT ![p].pc = "allow"]
            /\ UNCHANGED <<tokens, stat>>
    /\ UNCHANGED <<now, nextSweep, sessions, refill>>

\* ------------------------------------------------------------------------
\* Web server: handleConvert
\* ------------------------------------------------------------------------

\* r.Method != http.MethodPost: 405
ConvertMethod(p) ==
    /\ hnd[p].pc = "convert"
    /\ IF hnd[p].req.method # "POST"
       THEN Respond(p, httpError(hnd[p].res, "POST required", StatusMethodNotAllowed))
       ELSE hnd' = [hnd EXCEPT ![p].pc = "allow"]
    /\ UNCHANGED <<now, nextSweep, sessions, tokens, refill, stat>>

\* r.FormFile without the limit of http.MaxBytesReader (a faulty variant)
FormFileFailsNoLimit(up) == ~up.part

\* r.FormFile("file") on the body behind http.MaxBytesReader(w, r.Body, 50<<20):
\* it parses the multipart form up to its closing boundary, and fails when the
\* form has no part named file or when the reader's limit is passed before the
\* form ends
FormFileFails(up) == ~up.part \/ up.formLen > MaxUploadBytes

\* handleConvert without the test of len(items) == 0 (a faulty variant)
ConvertOutcomeKeepEmpty(up) ==
    IF FormFileFails(up) THEN [status |-> StatusBadRequest, msg |-> "No file uploaded"]
    ELSE IF ~up.readable THEN [status |-> StatusBadRequest, msg |-> "Failed to read file"]
    ELSE IF Detect(registry, up.name, up.head) = NoDecoder
    THEN [status |-> StatusBadRequest, msg |-> "Unsupported file format"]
    ELSE IF up.conv = "error" THEN [status |-> StatusBadRequest, msg |-> "Conversion failed: "]
    ELSE [status |-> StatusOK, msg |-> ""]

\* handleConvert from r.FormFile to len(items) == 0: the first test that fails
\* decides the answer
ConvertOutcome(up) ==
    IF FormFileFails(up) THEN [status |-> StatusBadRequest, msg |-> "No file uploaded"]
    ELSE IF ~up.readable THEN [status |-> StatusBadRequest, msg |-> "Failed to read file"]
    ELSE IF Detect(registry, up.name, up.head) = NoDecoder
    THEN [status |-> StatusBadRequest, msg |-> "Unsupported file format"]
    ELSE IF up.conv = "error" THEN [status |-> StatusBadRequest, msg |-> "Conversion failed: "]
    ELSE IF up.items = <<>>
    THEN [status |-> StatusUnprocessableEntity, msg |-> "No content found in file"]
    ELSE [status |-> StatusOK, msg |-> ""]

\* the bytes of the body r.FormFile consumes
BytesRead(up) == Min(up.formLen, MaxUploadBytes)

\* the bytes of data handed to formats.Detect and Convert (-1: they are not called)
BytesPassed(up) == IF FormFileFails(up) \/ ~up.readable THEN -1 ELSE up.dataLen

\* the decoder handleConvert gets for the upload (none when Detect is not called)
Detected(up) ==
    IF BytesPassed(up) = -1 THEN NoDecoder ELSE Detect(registry, up.name, up.head)

\* handleConvert giving the token back when the request fails (a faulty variant)
ConvertReadRefund(p) ==
    LET up == hnd[p].req.upload
        o == ConvertOutcome(up)
    IN  /\ hnd[p].pc = "read"
        /\ IF o.status # StatusOK
           THEN /\ hnd' = [hnd EXCEPT ![p].pc = "done",
                               ![p].read = BytesRead(up), ![p].passed = BytesPassed(up),
                               ![p].dec = Detected(up),
                               ![p].res = jsonError(hnd[p].res, o.msg, o.status)]
                /\ tokens' = tokens + 1
           ELSE /\ hnd' = [hnd EXCEPT ![p].pc = "create",
                               ![p].read = BytesRead(up), ![p].passed = BytesPassed(up),
                               ![p].dec = Detected(up),
                               ![p].files = ExtractedFiles(up.items)]
                /\ UNCHANGED tokens
        /\ UNCHANGED <<now, nextSweep, sessions, refill, stat>>

\* the upload is read, detected and converted: an error answer, or the files
ConvertRead(p) ==
    LET up == hnd[p].req.upload
        o == ConvertOutcome(up)
    IN  /\ hnd[p].pc = "read"
        /\ IF o.status # StatusOK
           THEN hnd' = [hnd EXCEPT ![p].pc = "done",
                               ![p].read = BytesRead(up), ![p].passed = BytesPassed(up),
                               ![p].dec = Detected(up),
                               ![p].res = jsonError(hnd[p].res, o.msg, o.status)]
           ELSE hnd' = [hnd EXCEPT ![p].pc = "create",
                               ![p].read = BytesRead(up), ![p].passed = BytesPassed(up),
                               ![p].dec = Detected(up),
                               ![p].files = ExtractedFiles(up.items)]
        /\ UNCHANGED <<now, nextSweep, sessions, tokens, refill, stat>>

\* create returning an ID without storing the session (a faulty variant)
ConvertCreateNoStore(p, id) ==
    /\ hnd[p].pc = "create"
    /\ id \notin DOMAIN sessions
    /\ hnd' = [hnd EXCEPT ![p].pc = "respond", ![p].sid = id]
    /\ UNCHANGED <<now, nextSweep, sessions, tokens, refill, stat>>

\* sid := store.create(files), under the store's lock; crypto/rand gives an ID
\* that no session has
ConvertCreate(p, id) ==
    /\ hnd[p].pc = "create"
    /\ id \notin DOMAIN sessions
    /\ sessions' = Put(sessions, id, [files |-> hnd[p].files, created |-> now,
                                      by |-> hnd[p].req.client])
    /\ hnd' = [hnd EXCEPT ![p].pc = "respond", ![p].sid = id]
    /\ UNCHANGED <<now, nextSweep, tokens, refill, stat>>

\* json.NewEncoder(w).Encode(convertResponse{sid, files})
ConvertRespond(p) ==
    /\ hnd[p].pc = "respond"
    /\ Respond(p, [hnd[p].res EXCEPT !.status = StatusOK, !.hdr.ContentType = CT_json,
                                   !.sid = hnd[p].sid, !.files = hnd[p].files])
    /\ UNCHANGED <<now, nextSweep, sessions, tokens, refill, stat>>

\* ------------------------------------------------------------------------
\* Web server: handleFile, handleZip
\* ------------------------------------------------------------------------

\* the session a goroutine got from store.get(sid), with its age at that moment
\* and the client that made it
GotSession(rec, sid) ==
    [rec EXCEPT !.sid = sid, !.files = sessions[sid].files,
                !.age = now - sessions[sid].created, !.owner = sessions[sid].by]

\* handleFile looking up every ID, well-formed or not (a faulty variant)
FileLookupAnyID(p) ==
    LET parts == SplitN2(TrimPrefix(hnd[p].req.path, S_apiFiles))
        sid == parts[1]
    IN  /\ hnd[p].pc = "files"
        /\ IF Len(parts) # 2
           THEN Respond(p, NotFound(hnd[p].res))
           ELSE IF sid \notin DOMAIN sessions
           THEN Respond(p, jsonError(hnd[p].res, "Session expired or not found",
                                     StatusNotFound))
           ELSE hnd' = [hnd EXCEPT ![p] = [GotSession(hnd[p], sid) EXCEPT !.pc = "serve"]]
        /\ UNCHANGED <<now, nextSweep, sessions, tokens, refill, stat>>

\* handleFile up to store.get: the path is split, the ID is tested, the session
\* is looked up under the store's read lock
FileLookup(p) ==
    LET parts == SplitN2(TrimPrefix(hnd[p].req.path, S_apiFiles))
        sid == parts[1]
    IN  /\ hnd[p].pc = "files"
        /\ IF Len(parts) # 2 \/ Len(sid) # SessionIDLen \/ ~isHexString(sid)
           THEN Respond(p, NotFound(hnd[p].res))
           ELSE IF sid \notin DOMAIN sessions
           THEN Respond(p, jsonError(hnd[p].res, "Session expired or not found",
                                     StatusNotFound))
           ELSE hnd' = [hnd EXCEPT ![p] = [GotSession(hnd[p], sid) EXCEPT !.pc = "serve"]]
        /\ UNCHANGED <<now, nextSweep, sessions, tokens, refill, stat>>

\* the Content-Security-Policy set by the suffix .html of the name (a faulty variant)
FileCSPByName(f) == IF HasSuffix(f.Name, S_dothtml) THEN CSP_extracted ELSE <<>>

\* the Content-Security-Policy handleFile sets for the file f
FileCSP(f) == IF f.Type = "html" THEN CSP_extracted ELSE <<>>

\* the response of handleFile for the file f
FileResponse(res, f) ==
    [res EXCEPT !.status = StatusOK,
                !.hdr.ContentType = contentType(f.Name, f.Type),
                !.hdr.ContentDisposition = safeDisposition(f.Name),
                !.hdr.CacheControl = "private, no-store",
                !.hdr.ContentSecurityPolicy = FileCSP(f),
                !.data = f.data]

\* handleFile serving the last file of the session when some file has the
\* requested name (a faulty variant)
FileServeLast(p) ==
    LET name == SplitN2(TrimPrefix(hnd[p].req.path, S_apiFiles))[2]
        found == { i \in 1..Len(hnd[p].files) : hnd[p].files[i].Name = name }
    IN  /\ hnd[p].pc = "serve"
        /\ IF found = {}
           THEN Respond(p, NotFound(hnd[p].res))
           ELSE Respond(p, FileResponse(hnd[p].res, hnd[p].files[Len(hnd[p].files)]))
        /\ UNCHANGED <<now, nextSweep, sessions, tokens, refill, stat>>

\* handleFile after store.get: the first file of that name is written
FileServe(p) ==
    LET name == SplitN2(TrimPrefix(hnd[p].req.path, S_apiFiles))[2]
        found == { i \in 1..Len(hnd[p].files) : hnd[p].files[i].Name = name }
    IN  /\ hnd[p].pc = "serve"
        /\ IF found = {}
           THEN Respond(p, NotFound(hnd[p].res))
           ELSE Respond(p, FileResponse(hnd[p].res, hnd[p].files[SetMin(found)]))
        /\ UNCHANGED <<now, nextSweep, sessions, tokens, refill, stat>>

\* handleZip up to store.get
ZipLookup(p) ==
    LET sid == TrimPrefix(hnd[p].req.path, S_apiZip)
    IN  /\ hnd[p].pc = "zip"
        /\ IF Len(sid) # SessionIDLen \/ ~isHexString(sid)
           THEN Respond(p, NotFound(hnd[p].res))
           ELSE IF sid \notin DOMAIN sessions
           THEN Respond(p, jsonError(hnd[p].res, "Session expired or not found",
                                     StatusNotFound))
           ELSE hnd' = [hnd EXCEPT ![p] = [GotSession(hnd[p], sid) EXCEPT !.pc = "zipserve"]]
        /\ UNCHANGED <<now, nextSweep, sessions, tokens, refill, stat>>

\* handleZip reading the files from the store again when it writes the archive
\* (a faulty variant)
ZipServeFromStore(p) ==
    /\ hnd[p].pc = "zipserve"
    /\ Respond(p, [hnd[p].res EXCEPT !.status = StatusOK, !.hdr.ContentType = CT_zip,
                                   !.hdr.ContentDisposition = S_zipDisposition,
                                   !.files = IF hnd[p].sid \in DOMAIN sessions
                                             THEN sessions[hnd[p].sid].files ELSE <<>>])
    /\ UNCHANGED <<now, nextSweep, sessions, tokens, refill, stat>>

\* handleZip after store.get: every file of the session is written to the archive
ZipServe(p) ==
    /\ hnd[p].pc = "zipserve"
    /\ Respond(p, [hnd[p].res EXCEPT !.status = StatusOK, !.hdr.ContentType = CT_zip,
                                   !.hdr.ContentDisposition = S_zipDisposition,
                                   !.files = hnd[p].files])
    /\ UNCHANGED <<now, nextSweep, sessions, tokens, refill, stat>>

\* ------------------------------------------------------------------------
\* Web server: handleIndex, handleInfo, static assets, the mux's redirect
\* ------------------------------------------------------------------------

\* handleIndex
ServeIndex(p) ==
    /\ hnd[p].pc = "index"
    /\ IF hnd[p].req.path # <<"/">>
       THEN Respond(p, NotFound(hnd[p].res))
       ELSE Respond(p, [hnd[p].res EXCEPT !.status = StatusOK,
                                        !.hdr.ContentType = CT_htmlUtf8,
                                        !.hdr.ContentSecurityPolicy = CSP_index])
    /\ UNCHANGED <<now, nextSweep, sessions, tokens, refill, stat>>

\* handleInfo
ServeInfo(p) ==
    /\ hnd[p].pc = "info"
    /\ Respond(p, [hnd[p].res EXCEPT !.status = StatusOK, !.hdr.ContentType = CT_json,
                                   !.hdr.CacheControl = "no-store"])
    /\ UNCHANGED <<now, nextSweep, sessions, tokens, refill, stat>>

\* cacheHeaders(http.StripPrefix("/static/", http.FileServer(...)))
ServeStatic(p) ==
    LET res == [hnd[p].res EXCEPT !.hdr.CacheControl = "public, max-age=86400, immutable"]
    IN  /\ hnd[p].pc = "static"
        /\ IF hnd[p].req.path \in StaticAssets
           THEN Respond(p, [res EXCEPT !.status = StatusOK, !.hdr.ContentType = CT_css])
           ELSE Respond(p, NotFound(res))
        /\ UNCHANGED <<now, nextSweep, sessions, tokens, refill, stat>>

\* the mux redirects a path that lacks the trailing slash of a registered subtree
ServeRedirect(p) ==
    /\ hnd[p].pc = "redirect"
    /\ Respond(p, [hnd[p].res EXCEPT !.status = StatusMovedPermanently,
                                   !.hdr.Location = hnd[p].req.path \o <<"/">>])
    /\ UNCHANGED <<now, nextSweep, sessions, tokens, refill, stat>>

\* ------------------------------------------------------------------------
\* Web server: the clock and sessionStore.cleanup
\* ------------------------------------------------------------------------

\* the last instant of the clock
MaxTime == (SessionMinutes + MaxLate) * Minute

\* time passes; the cleanup goroutine, while it runs, takes each tick of its ticker
Advance ==
    /\ now < nextSweep \/ serve.cleaner = "gone"
    /\ now < MaxTime
    /\ now' = now + 1
    /\ UNCHANGED <<nextSweep, sessions, tokens, refill, hnd, stat>>

\* cleanup deleting a session from its 10th minute on (a faulty variant)
ExpiredAtTTL(sess, t) == t - sess.created >= SessionTTL

\* cleanup: time.Since(sess.created) > 10*time.Minute
Expired(sess, t) == t - sess.created > SessionTTL

\* cleanup, on a tick: under the store's lock every expired session is deleted
Cleanup ==
    /\ serve.cleaner = "run"
    /\ now = nextSweep
    /\ sessions' = [id \in { i \in DOMAIN sessions : ~Expired(sessions[i], now) } |->
                       sessions[id]]
    /\ nextSweep' = nextSweep + Minute
    /\ UNCHANGED <<now, tokens, refill, hnd, stat>>

\* ------------------------------------------------------------------------
\* Web server: the store's lock, one step per acquisition
\* ------------------------------------------------------------------------

\* s.mu.Lock() returns when nobody holds the lock
CanLock == mu.writer = "" /\ mu.readers = {}

\* s.mu.RLock() returns when no writer holds the lock
CanRLock == mu.writer = ""

\* create taking the write lock without waiting for it (a faulty variant)
CreateLockNoWait(p) ==
    /\ hnd[p].pc = "create"
    /\ mu' = [mu EXCEPT !.writer = p]
    /\ hnd' = [hnd EXCEPT ![p].pc = "creating"]
    /\ UNCHANGED <<now, nextSweep, sessions, tokens, refill, stat>>
    /\ UNCHANGED <<imgVars, supplied, registry, serve, cli, kind>>

\* create: id := randomID(); s.mu.Lock()
CreateLock(p) ==
    /\ hnd[p].pc = "create"
    /\ CanLock
    /\ mu' = [mu EXCEPT !.writer = p]
    /\ hnd' = [hnd EXCEPT ![p].pc = "creating"]
    /\ UNCHANGED <<now, nextSweep, sessions, tokens, refill, stat>>
    /\ UNCHANGED <<imgVars, supplied, registry, serve, cli, kind>>

\* create: s.sessions[id] = &session{files, time.Now()}; s.mu.Unlock(); crypto/rand
\* gives an ID that no session has
CreateStore(p, id) ==
    /\ hnd[p].pc = "creating"
    /\ id \notin DOMAIN sessions
    /\ sessions' = Put(sessions, id, [files |-> hnd[p].files, created |-> now,
                                      by |-> hnd[p].req.client])
    /\ mu' = [mu EXCEPT !.writer = ""]
    /\ hnd' = [hnd EXCEPT ![p].pc = "respond", ![p].sid = id]
    /\ UNCHANGED <<now, nextSweep, tokens, refill, stat>>
    /\ UNCHANGED <<imgVars, supplied, registry, serve, cli, kind>>

\* handleZip up to s.mu.RLock() in store.get: an ID that is not well formed is
\* answered without the store
ZipRLock(p) ==
    LET sid == TrimPrefix(hnd[p].req.path, S_apiZip)
    IN  /\ hnd[p].pc = "zip"
        /\ IF Len(sid) # SessionIDLen \/ ~isHexString(sid)
           THEN Respond(p, NotFound(hnd[p].res)) /\ mu' = mu
           ELSE /\ CanRLock
                /\ mu' = [mu EXCEPT !.readers = @ \cup {p}]
                /\ hnd' = [hnd EXCEPT ![p].pc = "zipget"]
        /\ UNCHANGED <<now, nextSweep, sessions, tokens, refill, stat>>
        /\ UNCHANGED <<imgVars, supplied, registry, serve, cli, kind>>

\* store.get: sess := s.sessions[id]; s.mu.RUnlock(); and handleZip's answer
\* when there is no session
ZipGet(p) ==
    LET sid == TrimPrefix(hnd[p].req.path, S_apiZip)
    IN  /\ hnd[p].pc = "zipget"
        /\ mu' = [mu EXCEPT !.readers = @ \ {p}]
        /\ IF sid \notin DOMAIN sessions
           THEN Respond(p, jsonError(hnd[p].res, "Session expired or not found",
                                     StatusNotFound))
           ELSE hnd' = [hnd EXCEPT ![p] = [GotSession(hnd[p], sid) EXCEPT !.pc = "zipserve"]]
        /\ UNCHANGED <<now, nextSweep, sessions, tokens, refill, stat>>
        /\ UNCHANGED <<imgVars, supplied, registry, serve, cli, kind>>

\* cleanup, on a tick: s.mu.Lock()
CleanupLock ==
    /\ serve.cleaner = "run"
    /\ now = nextSweep
    /\ CanLock
    /\ mu' = [mu EXCEPT !.writer = "cleanup"]
    /\ UNCHANGED <<srvVars, imgVars, supplied, registry, serve, cli, kind>>

\* cleanup holding the lock: every expired session is deleted; s.mu.Unlock()
CleanupSweep ==
    /\ mu.writer = "cleanup"
    /\ sessions' = [id \in { i \in DOMAIN sessions : ~Expired(sessions[i], now) } |->
                       sessions[id]]
    /\ nextSweep' = nextSweep + Minute
    /\ mu' = [mu EXCEPT !.writer = ""]
    /\ UNCHANGED <<now, tokens, refill, hnd, stat>>
    /\ UNCHANGED <<imgVars, supplied, registry, serve, cli, kind>>

\* ------------------------------------------------------------------------
\* Web server: shutdown
\* ------------------------------------------------------------------------

\* all handlers have returned
Drained == \A p \in Procs : hnd[p].pc \in {"idle", "done"}

\* <-stop: SIGINT or SIGTERM arrives and cmdServe calls srv.Shutdown, which
\* closes the listener
Signal ==
    /\ serve.pc = "serving"
    /\ serve' = [serve EXCEPT !.pc = "shutdown"]
    /\ UNCHANGED <<imgVars, supplied, srvVars, registry, cli, kind, mu>>

\* srv.Shutdown that returns at once, handlers running or not (a faulty variant)
ShutdownNoWait ==
    /\ serve.pc = "shutdown"
    /\ serve' = [serve EXCEPT !.pc = "stopStore", !.drained = TRUE]
    /\ UNCHANGED <<imgVars, supplied, srvVars, registry, cli, kind, mu>>

\* srv.Shutdown(ctx) returns: when every handler has returned, or with an
\* error when the 10 seconds of ctx are over first
ShutdownReturns ==
    /\ serve.pc = "shutdown"
    /\ serve' = [serve EXCEPT !.pc = "stopStore", !.drained = Drained]
    /\ UNCHANGED <<imgVars, supplied, srvVars, registry, cli, kind, mu>>

\* store.stop(): close(s.done)
StopStore ==
    /\ serve.pc = "stopStore"
    /\ serve' = [serve EXCEPT !.pc = "stopLimiter", !.storeDone = @ + 1]
    /\ UNCHANGED <<imgVars, supplied, srvVars, registry, cli, kind, mu>>

\* limiter.stop(): close(rl.done)
StopLimiter ==
    /\ serve.pc = "stopLimiter"
    /\ serve' = [serve EXCEPT !.pc = "return", !.limiterDone = @ + 1]
    /\ UNCHANGED <<imgVars, supplied, srvVars, registry, cli, kind, mu>>

\* cleanup: case <-s.done: return
CleanupDone ==
    /\ serve.cleaner = "run"
    /\ serve.storeDone > 0
    /\ serve.pc # "exited"
    /\ serve' = [serve EXCEPT !.cleaner = "gone"]
    /\ UNCHANGED <<imgVars, supplied, srvVars, registry, cli, kind, mu>>

\* refill: case <-rl.done: return
RefillDone ==
    /\ refill.pc = "wait"
    /\ serve.limiterDone > 0
    /\ serve.pc # "exited"
    /\ refill' = [pc |-> "gone", cur |-> 0]
    /\ UNCHANGED <<imgVars, supplied, now, nextSweep, sessions, tokens, hnd, stat, cmdVars>>

\* cmdServe returns and the process ends, with every goroutine that still runs
ServeReturn ==
    /\ serve.pc = "return"
    /\ serve' = [serve EXCEPT !.pc = "exited", !.cleaner = "gone"]
    /\ refill' = [pc |-> "gone", cur |-> 0]
    /\ hnd' = [p \in Procs |-> IF hnd[p].pc \in {"idle", "done"} THEN hnd[p]
                                ELSE [hnd[p] EXCEPT !.pc = "killed"]]
    /\ UNCHANGED <<imgVars, supplied, now, nextSweep, sessions, tokens, stat, registry, cli, kind, mu>>

\* ------------------------------------------------------------------------
\* Package formats: registration
\* ------------------------------------------------------------------------

\* formats.Register(d), from the init of a format's package
Register(d) ==
    /\ Len(registry) < MaxFormats
    /\ \A i \in 1..Len(registry) : registry[i] # d
    /\ cli.pc = "idle"
    /\ \A p \in Procs : hnd[p].pc = "idle"
    /\ registry' = Append(registry, d)
    /\ UNCHANGED <<imgVars, supplied, srvVars, serve, cli, kind, mu>>

\* ------------------------------------------------------------------------
\* Command line
\* ------------------------------------------------------------------------

\* os.Exit(code), or the return of main (code 0)
Exit(code) == cli' = [cli EXCEPT !.pc = "exited", !.exit = code]

\* outputDir(args)
outputDir(args) == IF Len(args) >= 3 THEN args[3] ELSE <<".">>

\* main: the switch on the command, requireFile, outputDir
Main(args) ==
    /\ cli.pc = "idle"
    /\ IF Len(args) < 1 THEN Exit(1)
       ELSE IF args[1] = "help" THEN cli' = [cli EXCEPT !.pc = "exited", !.cmd = args[1], !.exit = 0]
       ELSE IF args[1] \notin {"extract", "body", "dump"}
       THEN cli' = [cli EXCEPT !.pc = "exited", !.cmd = args[1], !.exit = 1]
       ELSE IF Len(args) < 2
       THEN cli' = [cli EXCEPT !.pc = "exited", !.cmd = args[1], !.exit = 1]
       ELSE cli' = [cli EXCEPT !.pc = "convert", !.cmd = args[1], !.file = args[2],
                               !.dir = outputDir(args)]
    /\ UNCHANGED <<imgVars, supplied, srvVars, registry, serve, kind, mu>>

\* the commands without their filters (a faulty variant)
SelectedAll(cmd, files) == files

\* cmdExtract, cmdBody, cmdDump: the files of the result the command writes
Selected(cmd, files) ==
    IF cmd = "extract" THEN SelectSeq(files, LAMBDA f : f.Category = "attachment")
    ELSE IF cmd = "body" THEN SelectSeq(files, LAMBDA f : f.Category = "body")
    ELSE files

\* convertFile that goes on without a decoder (a faulty variant)
convertFileFailsAnyFormat(f, dec) == ~f.readable \/ f.conv = "error"

\* convertFile: os.ReadFile, formats.Detect or Convert fails
convertFileFails(f, dec) == ~f.readable \/ dec = NoDecoder \/ f.conv = "error"

\* convertFile and the filter of the command: exit status 1, or the files to write
ConvertFile ==
    LET f == cli.file
        dec == IF f.readable THEN Detect(registry, f.name, f.head) ELSE NoDecoder
    IN  /\ cli.pc = "convert"
        /\ IF convertFileFails(f, dec)
           THEN cli' = [cli EXCEPT !.pc = "exited", !.dec = dec, !.exit = 1]
           ELSE cli' = [cli EXCEPT !.pc = "write", !.dec = dec,
                                   !.files = Selected(cli.cmd, f.files), !.next = 1]
        /\ UNCHANGED <<imgVars, supplied, srvVars, registry, serve, kind, mu>>

\* writeConvertedFiles giving up at the first file it cannot write (a faulty
\* variant)
WriteNextStop(ok) ==
    LET f == cli.files[cli.next]
    IN  /\ cli.pc = "write"
        /\ cli.next <= Len(cli.files)
        /\ cli' = [cli EXCEPT !.next = @ + 1,
                               !.pc = IF ok THEN @ ELSE "exited",
                               !.exit = IF ok THEN @ ELSE 1,
                               !.wrote = Append(@, [path |-> Join(cli.dir, f.Name),
                                                    name |-> f.Name, data |-> f.Data,
                                                    ok |-> ok])]
        /\ UNCHANGED <<imgVars, supplied, srvVars, registry, serve, kind, mu>>

\* writeConvertedFiles, one file: writeFile(outDir, f.Name, f.Data); an error of
\* os.MkdirAll or os.WriteFile is printed and the loop goes on
WriteNext(ok) ==
    LET f == cli.files[cli.next]
    IN  /\ cli.pc = "write"
        /\ cli.next <= Len(cli.files)
        /\ cli' = [cli EXCEPT !.next = @ + 1,
                               !.wrote = Append(@, [path |-> Join(cli.dir, f.Name),
                                                    name |-> f.Name, data |-> f.Data,
                                                    ok |-> ok])]
        /\ UNCHANGED <<imgVars, supplied, srvVars, registry, serve, kind, mu>>

\* writeConvertedFiles returns (at once when there are no files), and main too
CliReturn ==
    /\ cli.pc = "write"
    /\ cli.next > Len(cli.files)
    /\ Exit(0)
    /\ UNCHANGED <<imgVars, supplied, srvVars, registry, serve, kind, mu>>

\* ------------------------------------------------------------------------
\* guessType on its own
\* ------------------------------------------------------------------------

\* guessType(name)
Guess(name) ==
    /\ kind' = [name |-> name, tag |-> guessType(name),
                ct |-> contentType(name, guessType(name))]
    /\ UNCHANGED <<imgVars, supplied, srvVars, registry, serve, cli, mu>>

\* ------------------------------------------------------------------------
\* Specifications
\* ------------------------------------------------------------------------

\* the server's state stays as it is
ServerIdle == UNCHANGED <<srvVars, cmdVars>>

\* the inliner's state stays as it is
InlinerIdle == UNCHANGED <<imgVars, supplied, cmdVars>>

\* the caller's entries stay as they are and the server's state too
CallerIdle == UNCHANGED <<supplied, srvVars, cmdVars>>

\* the documents a caller passes: any document to its first call; to a later
\* call a document of one piece, the same document again, or the previous result
CallDocs == IF calls = 0 THEN Docs ELSE DocsOf(1) \cup {html, out}

\* documents of several tags, calls that share a cache, a small network
Next ==
    \/ \E h \in CallDocs, arg \in {"nil", "new", "same"} : Call(h, arg) /\ CallerIdle
    \/ Return /\ CallerIdle
    \/ KeepOther /\ CallerIdle
    \/ UseCache /\ CallerIdle
    \/ StartFetch /\ CallerIdle
    \/ FetchParseError /\ CallerIdle
    \/ \E dns \in SomeDns : FetchBlocked(dns) /\ CallerIdle
    \/ \E dns \in SomeDns : FetchAllowed(dns) /\ CallerIdle
    \/ GetError /\ CallerIdle
    \/ GetRedirect(SomeDns, SomeTargets) /\ CallerIdle
    \/ GetResponse(SomeDns, SomeStatuses, SomeCTs) /\ CallerIdle
    \/ RespRefused /\ CallerIdle
    \/ \E n \in SomeBodyLens : ReadError(n) /\ CallerIdle
    \/ \E n \in SomeBodyLens : ReadBody(n) /\ CallerIdle

Spec == Init /\ [][Next]_vars

\* one document of one tag, the whole network
NextFetch ==
    \/ \E h \in FetchDocs : calls = 0 /\ Call(h, "nil") /\ CallerIdle
    \/ Return /\ CallerIdle
    \/ StartFetch /\ CallerIdle
    \/ FetchParseError /\ CallerIdle
    \/ \E dns \in AllDns : FetchBlocked(dns) /\ CallerIdle
    \/ \E dns \in AllDns : FetchAllowed(dns) /\ CallerIdle
    \/ GetError /\ CallerIdle
    \/ GetRedirect(AllDns, AllTargets) /\ CallerIdle
    \/ GetResponse(AllDns, AllStatuses, AllCTs) /\ CallerIdle
    \/ RespRefused /\ CallerIdle
    \/ \E n \in AllBodyLens : ReadError(n) /\ CallerIdle
    \/ \E n \in AllBodyLens : ReadBody(n) /\ CallerIdle

SpecFetch == Init /\ [][NextFetch]_vars

\* the maps a caller fills before it passes them: a failure it remembers, a text
\* of its own, an entry for a URL that is not http(s), a data URI it made
CallerMaps ==
    { Put(EmptyMap, U_a, <<>>),
      Put(EmptyMap, U_a, <<"x">>),
      Put(EmptyMap, U_cid, DataURI(CT_png, 1)),
      Put(Put(EmptyMap, U_b, DataURI(CT_svg, 1)), U_cid, <<>>) }

\* A caller calls InlineExternalImages(h, mp) with a map mp it has filled itself.
CallWith(h, mp) ==
    /\ pc = "idle"
    /\ calls < MaxCalls
    /\ calls' = calls + 1
    /\ html' = h
    /\ pos' = 1
    /\ out' = <<>>
    /\ cacheArg' = "map"
    /\ cache' = mp
    /\ supplied' = mp
    /\ fetchLog' = <<>>
    /\ reapplied' = FALSE
    /\ pc' = "scan"
    /\ cur' = NoMatch
    /\ last' = NoLast
    /\ FetchIdle
    /\ ServerIdle

\* documents of several tags, calls on maps the caller filled, a small network
NextCache ==
    \/ \E h \in CallDocs, mp \in CallerMaps : CallWith(h, mp)
    \/ \E h \in CallDocs : Call(h, "same") /\ CallerIdle
    \/ Return /\ CallerIdle
    \/ KeepOther /\ CallerIdle
    \/ UseCache /\ CallerIdle
    \/ StartFetch /\ CallerIdle
    \/ FetchParseError /\ CallerIdle
    \/ \E dns \in SomeDns : FetchBlocked(dns) /\ CallerIdle
    \/ \E dns \in SomeDns : FetchAllowed(dns) /\ CallerIdle
    \/ GetError /\ CallerIdle
    \/ GetRedirect(SomeDns, SomeTargets) /\ CallerIdle
    \/ GetResponse(SomeDns, SomeStatuses, SomeCTs) /\ CallerIdle
    \/ RespRefused /\ CallerIdle
    \/ \E n \in SomeBodyLens : ReadError(n) /\ CallerIdle
    \/ \E n \in SomeBodyLens : ReadBody(n) /\ CallerIdle

SpecCache == Init /\ [][NextCache]_vars

\* the goroutine the handlers of one request after another run on
OneProc == {"p1"}

\* two goroutines in handleConvert and the refill goroutine
NextLimiter ==
    \/ \E p \in Procs, r \in LimiterRequests : Arrive(p, r) /\ InlinerIdle
    \/ \E p \in Procs : ConvertMethod(p) /\ InlinerIdle
    \/ \E p \in Procs : AllowLoad(p) /\ InlinerIdle
    \/ \E p \in Procs : AllowCAS(p) /\ InlinerIdle
    \/ \E p \in Procs : ConvertRead(p) /\ InlinerIdle
    \/ RefillLoad /\ InlinerIdle
    \/ RefillStore /\ InlinerIdle

SpecLimiter == Init /\ [][NextLimiter]_vars

\* requests to every route on one goroutine, before the first cleanup tick
NextHandlers ==
    \/ \E p \in OneProc, r \in HandlerRequests : Arrive(p, r) /\ InlinerIdle
    \/ \E p \in OneProc : ConvertMethod(p) /\ InlinerIdle
    \/ \E p \in OneProc : AllowLoad(p) /\ InlinerIdle
    \/ \E p \in OneProc : AllowCAS(p) /\ InlinerIdle
    \/ \E p \in OneProc : ConvertRead(p) /\ InlinerIdle
    \/ \E p \in OneProc, id \in SessionIDs : ConvertCreate(p, id) /\ InlinerIdle
    \/ \E p \in OneProc : ConvertRespond(p) /\ InlinerIdle
    \/ \E p \in OneProc : FileLookup(p) /\ InlinerIdle
    \/ \E p \in OneProc : FileServe(p) /\ InlinerIdle
    \/ \E p \in OneProc : ZipLookup(p) /\ InlinerIdle
    \/ \E p \in OneProc : ZipServe(p) /\ InlinerIdle
    \/ \E p \in OneProc : ServeIndex(p) /\ InlinerIdle
    \/ \E p \in OneProc : ServeInfo(p) /\ InlinerIdle
    \/ \E p \in OneProc : ServeStatic(p) /\ InlinerIdle
    \/ \E p \in OneProc : ServeRedirect(p) /\ InlinerIdle

SpecHandlers == Init /\ [][NextHandlers]_vars

\* uploads and downloads of two clients while the clock runs and cleanup ticks
NextSessions ==
    \/ \E p \in OneProc, r \in SessionRequests :
          (r.upload.part => stat.uploads < MaxSessions) /\ Arrive(p, r) /\ InlinerIdle
    \/ \E p \in OneProc : ConvertMethod(p) /\ InlinerIdle
    \/ \E p \in OneProc : AllowLoad(p) /\ InlinerIdle
    \/ \E p \in OneProc : AllowCAS(p) /\ InlinerIdle
    \/ \E p \in OneProc : ConvertRead(p) /\ InlinerIdle
    \/ \E p \in OneProc, id \in ClockIDs : ConvertCreate(p, id) /\ InlinerIdle
    \/ \E p \in OneProc : ConvertRespond(p) /\ InlinerIdle
    \/ \E p \in OneProc : FileLookup(p) /\ InlinerIdle
    \/ \E p \in OneProc : FileServe(p) /\ InlinerIdle
    \/ \E p \in OneProc : ZipLookup(p) /\ InlinerIdle
    \/ \E p \in OneProc : ZipServe(p) /\ InlinerIdle
    \/ Advance /\ InlinerIdle
    \/ Cleanup /\ InlinerIdle

SpecSessions == Init /\ [][NextSessions]_vars

\* two goroutines converting and downloading next to the cleanup goroutine, the
\* store's lock taken and released step by step; a handler returns within a
\* tick of the clock, and crypto/rand does not repeat an ID a goroutine holds
NextStore ==
    \/ \E p \in Procs, r \in StoreRequests :
          now \in StoreTimes /\ Arrive(p, r) /\ InlinerIdle
    \/ \E p \in Procs : ConvertMethod(p) /\ InlinerIdle
    \/ \E p \in Procs : AllowLoad(p) /\ InlinerIdle
    \/ \E p \in Procs : AllowCAS(p) /\ InlinerIdle
    \/ \E p \in Procs : ConvertRead(p) /\ InlinerIdle
    \/ \E p \in Procs : CreateLock(p)
    \/ \E p \in Procs, id \in ClockIDs :
          id \notin { hnd[q].sid : q \in Procs } /\ CreateStore(p, id)
    \/ \E p \in Procs : ConvertRespond(p) /\ InlinerIdle
    \/ \E p \in Procs : ZipRLock(p)
    \/ \E p \in Procs : ZipGet(p)
    \/ \E p \in Procs : ZipServe(p) /\ InlinerIdle
    \/ Drained /\ Advance /\ InlinerIdle
    \/ CleanupLock
    \/ CleanupSweep

SpecStore == Init /\ [][NextStore]_vars

\* one run of the command line
NextCli ==
    \/ \E a \in CliArgs : Main(a)
    \/ ConvertFile
    \/ \E ok \in BOOLEAN : WriteNext(ok)
    \/ CliReturn

SpecCli == Init /\ [][NextCli]_vars

\* uploads and input files of every name with every first bytes
DetectNames == { F_winmail, F_noext, F_msg, F_text }

DetectHeads == { B_tnef, B_other, B_text, <<>> }

DetectRequests ==
    { Request("POST", S_apiConvert, "c1",
              Upload(TRUE, n, b, 200, 200, TRUE, 100, "ok", <<Item(N_page, D_html)>>)) :
        n \in DetectNames, b \in DetectHeads }

DetectArgs ==
    { <<"dump", InputFile(TRUE, n, b, "ok", <<ConvertedFile(N_body, D_html, "body")>>)>> :
        n \in DetectNames, b \in DetectHeads }

\* a second format may be registered; then files are uploaded and converted
NextDetect ==
    \/ Register(OtherFormat)
    \/ \E p \in OneProc, r \in DetectRequests : Arrive(p, r) /\ InlinerIdle
    \/ \E p \in OneProc : ConvertMethod(p) /\ InlinerIdle
    \/ \E p \in OneProc : AllowLoad(p) /\ InlinerIdle
    \/ \E p \in OneProc : AllowCAS(p) /\ InlinerIdle
    \/ \E p \in OneProc : ConvertRead(p) /\ InlinerIdle
    \/ \E p \in OneProc, id \in ClockIDs : ConvertCreate(p, id) /\ InlinerIdle
    \/ \E p \in OneProc : ConvertRespond(p) /\ InlinerIdle
    \/ \E a \in DetectArgs : Main(a)
    \/ ConvertFile
    \/ WriteNext(TRUE)
    \/ CliReturn

SpecDetect == Init /\ [][NextDetect]_vars

\* names: a stem, an extension in lower case, in upper case or capitalised
KindStems == { <<"a">>, <<"a",".","b">>, <<>>, <<"d",".","x","/","y">>, <<"h","t","m","l">> }

KindExts ==
    { S_dothtml, S_dothtm, S_dottxt, S_dotrtf, S_dotpng, S_dotjpg, S_dotjpeg, S_dotgif,
      S_dotpdf, S_dotdoc, S_dotdocx, S_dotxls, S_dotxlsx, S_dotbmp, S_dotwebp, S_dotsvg,
      <<>>, <<".">>, <<".","h","t","m","l","x">>, <<".","x","l","s","/">>,
      <<"_","p","d","f">>, <<".","z","i","p">> }

UpperChar(c) ==
    IF c \in Range(Lower) THEN Upper[CHOOSE i \in DOMAIN Lower : Lower[i] = c] ELSE c

ToUpper(s) == [i \in 1..Len(s) |-> UpperChar(s[i])]

\* the last letter of the name in upper case
Capped(s) == IF s = <<>> THEN s ELSE SubSeq(s, 1, Len(s) - 1) \o <<UpperChar(s[Len(s)])>>

KindNames ==
    { st \o e : st \in KindStems, e \in KindExts }
      \cup { st \o ToUpper(e) : st \in KindStems, e \in KindExts }
      \cup { Capped(st \o e) : st \in KindStems, e \in KindExts }

\* guessType is called with one name after another
NextKinds == \E n \in KindNames : Guess(n)

SpecKinds == Init /\ [][NextKinds]_vars

\* the server runs, a signal arrives, cmdServe shuts down and returns
NextShutdown ==
    \/ \E p \in OneProc, r \in LimiterRequests : Arrive(p, r) /\ InlinerIdle
    \/ \E p \in OneProc : serve.pc # "exited" /\ ConvertMethod(p) /\ InlinerIdle
    \/ \E p \in OneProc : serve.pc # "exited" /\ AllowLoad(p) /\ InlinerIdle
    \/ \E p \in OneProc : serve.pc # "exited" /\ AllowCAS(p) /\ InlinerIdle
    \/ \E p \in OneProc : serve.pc # "exited" /\ ConvertRead(p) /\ InlinerIdle
    \/ serve.pc # "exited" /\ RefillLoad /\ InlinerIdle
    \/ serve.pc # "exited" /\ RefillStore /\ InlinerIdle
    \/ now < (1 + MaxLate) * Minute /\ Advance /\ InlinerIdle
    \/ Cleanup /\ InlinerIdle
    \/ Signal
    \/ ShutdownReturns
    \/ StopStore
    \/ StopLimiter
    \/ CleanupDone
    \/ RefillDone
    \/ ServeReturn

SpecShutdown == Init /\ [][NextShutdown]_vars

\* cmdServe goes on after the signal: srv.Shutdown returns within the 10 seconds
\* of its context, and the calls after it return
SpecShutdownFair ==
    /\ SpecShutdown
    /\ WF_vars(ShutdownReturns)
    /\ WF_vars(StopStore)
    /\ WF_vars(StopLimiter)
    /\ WF_vars(ServeReturn)

\* ------------------------------------------------------------------------
\* Claims
\* ------------------------------------------------------------------------

\* an address of a kind C1 lists: loopback, private, link-local or unspecified
ListedAddress(ip) ==
    \/ IsLoopback(ip)
    \/ IsPrivate(ip)
    \/ IsLinkLocalUnicast(ip)
    \/ IsLinkLocalMulticast(ip)
    \/ IsUnspecified(ip)

\* a host C1 lists, given what the lookup in the SSRF check returned for it
ListedHost(lk) ==
    \/ lk.host = S_localhost
    \/ lk.host = S_metadata
    \/ HasSuffix(lk.host, S_dotlocal)
    \/ HasSuffix(lk.host, S_dotinternal)
    \/ lk.asked /\ lk.err
    \/ lk.asked /\ \E ip \in lk.ips : ListedAddress(ip)

\* C1: when the host of an img URL is localhost, metadata.google.internal, ends
\* in .local or .internal, cannot be resolved, or resolves to addresses of which
\* one is loopback, private, link-local or unspecified, fetchImage sends no HTTP
\* request and the img tag is left byte-identical.
C1_BlockedHostNotFetched ==
    /\ (looked.done /\ ListedHost(looked)) =>
          (nreq = 0 /\ ~conn.made /\ pc \notin {"get", "resp"})
    /\ (last.via = "fetch" /\ last.looked.done /\ ListedHost(last.looked)) =>
          (last.nreq = 0 /\ last.uri = <<>> /\ last.piece = last.tag)

\* a call has returned that left alone a tag whose host resolved to a public and
\* a private address
C1_Witness ==
    /\ pc = "idle"
    /\ last.via = "fetch"
    /\ last.looked.asked
    /\ last.looked.ips = {IP_public, IP_private}
    /\ out = html

\* C2: the address the client connects to for the img URL is one of the
\* addresses the SSRF check validated for that host.
C2_DialsValidatedAddress ==
    (conn.made /\ conn.hop = 0) => conn.ip \in looked.ips

\* C3: no request is sent to a redirect target whose host the SSRF rules block
\* (a blocked name, or a loopback, private, link-local or unspecified address).
C3_RedirectTargetsValidated ==
    (conn.made /\ conn.hop > 0) =>
        (~BlockedName(conn.host) /\ ~ListedAddress(conn.ip))

\* C4: a host that resolves to a multicast address is rejected: no HTTP request
\* is made for it and the tag stays as it is.
C4_MulticastRejected ==
    /\ (looked.asked /\ \E ip \in looked.ips : IsMulticast(ip)) => nreq = 0
    /\ (last.via = "fetch" /\ last.looked.asked
            /\ \E ip \in last.looked.ips : IsMulticast(ip)) =>
          (last.nreq = 0 /\ last.piece = last.tag)

\* C5: when the body of the response is larger than 5 MiB nothing is
\* substituted: the img tag keeps its URL.
C5_OversizeAbandoned ==
    (last.via = "fetch" /\ last.bodyLen > MaxImageBytes) =>
        (last.uri = <<>> /\ last.piece = last.tag)

\* C6: on one cache map fetchImage is called at most once per URL, whether the
\* first fetch succeeded or failed, and every later occurrence of the URL gets
\* the outcome of that fetch.
C6_FetchedOncePerURL ==
    /\ \A i, j \in DOMAIN fetchLog : fetchLog[i].url = fetchLog[j].url => i = j
    /\ pc \in {"fetch", "get", "resp"} =>
          \A i \in DOMAIN fetchLog : fetchLog[i].url # Url(html, cur)
    /\ last.via \in {"cache", "fetch"} =>
          \E i \in DOMAIN fetchLog :
             /\ fetchLog[i].url = last.url
             /\ fetchLog[i].uri = last.uri
             /\ last.piece = IF last.uri = <<>> THEN last.tag
                             ELSE SubSeq(last.tag, 1, Len(last.tag) - Len(last.url) - 1)
                                     \o last.uri \o <<"\"">>

\* in a second call on the same map, a URL whose fetch failed in the first call
\* is left alone without a fetch
C6_Witness ==
    /\ calls = 2
    /\ cacheArg = "map"
    /\ fetchLog # <<>>
    /\ last.via = "cache"
    /\ last.uri = <<>>
    /\ last.piece = last.tag

\* the text the call must return for s given the outcome per URL in c: every
\* http(s) img tag whose URL has a data URI in c carries it, all else is s
RECURSIVE Rendered(_, _, _)
Rendered(s, from, c) ==
    LET m == FindMatch(s, from)
        u == Url(s, m)
    IN  IF m = NoMatch THEN SubSeq(s, from, Len(s))
        ELSE SubSeq(s, from, m.p - 1)
                \o (IF IsHTTP(u) /\ u \in DOMAIN c /\ c[u] # <<>>
                    THEN SubSeq(s, m.p, m.q + 4) \o c[u] \o <<"\"">>
                    ELSE SubSeq(s, m.p, m.r))
                \o Rendered(s, m.r + 1, c)

\* C7: when the fetch of one image fails with an error the call goes on and
\* returns, that img tag is byte-identical, and the other tags are rewritten
\* as they would be without the failure.
C7_ErrorsSwallowed ==
    /\ (last.via = "fetch" /\ last.failed) =>
          (last.uri = <<>> /\ last.piece = last.tag /\ cache[last.url] = <<>>)
    /\ (pc = "idle" /\ calls > 0) => out = Rendered(html, 1, cache)

\* a call has returned in which one fetch failed and another tag was rewritten
C7_Witness ==
    /\ pc = "idle"
    /\ last.via = "fetch"
    /\ last.failed
    /\ out # html
    /\ Contains(out, S_base64)

\* C8: a response is inlined only when its status is 200 and its Content-Type
\* starts with image/; with any other status or type the tag is left alone.
C8_OnlyOKImageInlined ==
    /\ (last.via = "fetch" /\ last.uri # <<>>) =>
          (last.resp.got /\ last.resp.status = StatusOK /\ HasPrefix(last.resp.ct, S_image))
    /\ (last.via = "fetch" /\ last.resp.got
            /\ ~(last.resp.status = StatusOK /\ HasPrefix(last.resp.ct, S_image))) =>
          (last.uri = <<>> /\ last.piece = last.tag /\ cache[last.url] = <<>>)

\* a 200 response of type text/html was abandoned
C8_Witness ==
    /\ last.via = "fetch"
    /\ last.resp.got
    /\ last.resp.status = StatusOK
    /\ last.resp.ct = CT_html
    /\ last.piece = last.tag

\* C9 as claimed: for every cache argument, nil included, the call on the result
\* of the previous call with the same cache argument returns that result.
C9_Idempotent ==
    (pc = "idle" /\ reapplied) => out = html

\* C9 as amended: with the caller's own (non-nil) map, filled by
\* InlineExternalImages only, the call on the result of the previous call on
\* that map returns that result unchanged.
C9_IdempotentOnSharedMap ==
    (pc = "idle" /\ reapplied /\ cacheArg = "map") => out = html

\* the second call on a result that holds a data URI and an unresolved URL
C9_Witness ==
    /\ pc = "idle"
    /\ reapplied
    /\ cacheArg = "map"
    /\ Contains(html, S_base64)
    /\ last.via = "cache"
    /\ last.uri = <<>>

\* C10: an img tag whose tag name or attribute name is in upper or mixed case
\* is matched like its lower-case form: after the call its http(s) URL has been
\* looked up, and the result is the one for case-insensitive matching.
C10_CaseInsensitiveMatch ==
    (pc = "idle" /\ calls > 0) =>
        \A p \in 1..Len(html) :
           LET m == MatchAt(ToLower(html), p)
           IN  (m # NoMatch /\ IsHTTP(Url(html, m))) => Url(html, m) \in DOMAIN cache

\* a text of the form data:image/<type>;base64,<payload>, type and payload not empty
ImageDataURI(uri) ==
    /\ HasPrefix(uri, S_data \o S_image)
    /\ \E i \in (Len(S_data \o S_image) + 2)..Len(uri) :
          HasAt(uri, i, S_base64) /\ i + Len(S_base64) <= Len(uri)

\* C11: on a map the caller owns, every entry the function wrote has an http(s)
\* URL as key and "" or data:image/<type>;base64,<payload> as value; an entry
\* that is present is never overwritten or removed, and the entries the caller
\* supplied keep their values.
C11_CacheEntries ==
    /\ \A i \in DOMAIN fetchLog :
          /\ IsHTTP(fetchLog[i].url)
          /\ fetchLog[i].url \notin DOMAIN supplied
          /\ fetchLog[i].url \in DOMAIN cache
          /\ cache[fetchLog[i].url] = fetchLog[i].uri
          /\ fetchLog[i].uri = <<>> \/ ImageDataURI(fetchLog[i].uri)
    /\ \A u \in DOMAIN supplied : u \in DOMAIN cache /\ cache[u] = supplied[u]
    /\ DOMAIN cache = DOMAIN supplied \cup { fetchLog[i].url : i \in DOMAIN fetchLog }

\* the second call on a map the caller filled has returned; the function wrote a
\* data URI and a failure next to the caller's entries
C11_Witness ==
    /\ pc = "idle"
    /\ calls = 2
    /\ supplied # EmptyMap
    /\ \E i, j \in DOMAIN fetchLog :
          /\ fetchLog[i].uri = <<>>
          /\ ImageDataURI(fetchLog[j].uri)
          /\ cache[fetchLog[j].url] = fetchLog[j].uri

\* the goroutine p has written the response of a file or zip request
Downloaded(p) ==
    /\ hnd[p].pc = "done"
    /\ Route(hnd[p].req.path) \in {"files", "zip"}
    /\ hnd[p].res.status = StatusOK

\* C12: no /api/files/ or /api/zip/ request is served from a session that was
\* more than 10 minutes old when the handler got it from the store.
C12_NoServeAfterTTL ==
    \A p \in Procs : Downloaded(p) => hnd[p].age <= SessionTTL

\* C13: a file or zip request with the ID of a live session that comes from
\* another client than the one that uploaded is answered 403 and gets no data.
C13_BoundToClient ==
    \A p \in Procs :
        (/\ hnd[p].pc = "done"
         /\ Route(hnd[p].req.path) \in {"files", "zip"}
         /\ hnd[p].owner # ""
         /\ hnd[p].owner # hnd[p].req.client) =>
            (/\ hnd[p].res.status = StatusForbidden
             /\ hnd[p].res.data = <<>>
             /\ hnd[p].res.files = <<>>)

\* C14: the number of allow() calls that returned true is at most
\* maxTokens + refillRate * (refill ticks completed).
C14_RateBound ==
    stat.granted <= BurstTokens + RefillRate * stat.ticks

\* C15: a POST to /api/convert that finds no token is answered 429 with
\* Retry-After: 1 and a JSON error; nothing of its body is read, nothing is
\* converted, it makes no session and takes no token.
C15_NoTokenAnswer ==
    \A p \in Procs :
        (hnd[p].pc = "done" /\ hnd[p].res.status = StatusTooManyRequests) =>
            (/\ hnd[p].res.hdr.RetryAfter = "1"
             /\ hnd[p].res.hdr.ContentType = CT_json
             /\ hnd[p].res.msg # ""
             /\ hnd[p].read = 0
             /\ hnd[p].passed = -1
             /\ hnd[p].files = <<>>
             /\ hnd[p].sid = <<>>
             /\ hnd[p].took = 0)

\* an upload with a file that converts to two items was answered 429
C15_Witness ==
    /\ hnd["p1"].pc = "done"
    /\ hnd["p1"].res.status = StatusTooManyRequests
    /\ hnd["p1"].req.upload = Up_mail
    /\ tokens = 0

\* the goroutine p has written the response of a request to /api/convert
Converted(p) == hnd[p].pc = "done" /\ Route(hnd[p].req.path) = "convert"

\* C16: handleConvert makes a session exactly when it got the file, Detect
\* returned a converter, and Convert returned no error and at least one item.
\* Without a readable file, without a converter or with a conversion error the
\* answer is 400, with zero items 422, and no session is made.
C16_SessionIffConverted ==
    /\ \A p \in Procs :
          Converted(p) =>
             LET up == hnd[p].req.upload
                 called == hnd[p].passed # -1
                 ok == hnd[p].dec # NoDecoder /\ up.conv = "ok"
             IN  /\ (hnd[p].sid # <<>>) <=>
                        (called /\ ok /\ up.items # <<>>)
                 /\ hnd[p].sid # <<>> =>
                        (/\ hnd[p].res.status = StatusOK
                         /\ hnd[p].sid \in DOMAIN sessions
                         /\ sessions[hnd[p].sid].files = ExtractedFiles(up.items))
                 /\ (hnd[p].took = 1 /\ (~called \/ ~ok)) =>
                        hnd[p].res.status = StatusBadRequest
                 /\ (called /\ ok /\ up.items = <<>>) =>
                        hnd[p].res.status = StatusUnprocessableEntity
    /\ \A id \in DOMAIN sessions : sessions[id].files # <<>>

\* a conversion with zero items was answered 422 while the store holds the
\* session of an earlier upload
C16_Witness ==
    /\ Converted("p1")
    /\ hnd["p1"].req.upload = Up_empty
    /\ hnd["p1"].res.status = StatusUnprocessableEntity
    /\ sessions # EmptyMap

\* C17 as claimed: Detect and Convert get at most 50 MiB, and a request whose
\* body is larger than 50 MiB is answered with an error and makes no session.
C17_BodyCapEnforced ==
    \A p \in Procs :
        /\ hnd[p].passed <= MaxUploadBytes
        /\ (Converted(p) /\ hnd[p].took = 1
               /\ hnd[p].req.upload.bodyLen > MaxUploadBytes) =>
              (hnd[p].res.status >= StatusBadRequest /\ hnd[p].sid = <<>>)

\* C17 as amended: handleConvert reads at most 50 MiB of the body and hands at
\* most 50 MiB to Detect and Convert, and a request whose multipart form, up to
\* its closing boundary, is larger than 50 MiB is answered with an error and
\* makes no session.
C17_FormCapEnforced ==
    \A p \in Procs :
        /\ hnd[p].passed <= MaxUploadBytes
        /\ hnd[p].read <= MaxUploadBytes
        /\ (Converted(p) /\ hnd[p].took = 1
               /\ hnd[p].req.upload.formLen > MaxUploadBytes) =>
              (hnd[p].res.status = StatusBadRequest /\ hnd[p].sid = <<>>)

\* an upload whose form is larger than 50 MiB was answered 400 after 50 MiB of
\* it were read
C17_Witness ==
    /\ Converted("p1")
    /\ hnd["p1"].req.upload = Up_huge
    /\ hnd["p1"].took = 1
    /\ hnd["p1"].read = MaxUploadBytes
    /\ hnd["p1"].res.status = StatusBadRequest

\* C18: every response of handleFile with Content-Type text/html has a
\* Content-Security-Policy with default-src 'none', and for no file name does
\* handleFile choose text/html without that header.
C18_HtmlHasStrictCSP ==
    /\ \A p \in Procs :
          (/\ hnd[p].pc = "done"
           /\ Route(hnd[p].req.path) = "files"
           /\ HasPrefix(hnd[p].res.hdr.ContentType, S_texthtml)) =>
              "default-src 'none'" \in Range(hnd[p].res.hdr.ContentSecurityPolicy)
    /\ \A name \in RequestNames :
          LET f == ExtractedFile(Item(name, <<>>))
          IN  HasPrefix(contentType(f.Name, f.Type), S_texthtml) =>
                 "default-src 'none'" \in Range(FileCSP(f))

\* the file NOTE.HTM was served as text/html with the strict policy
C18_Witness ==
    /\ Downloaded("p1")
    /\ hnd["p1"].res.hdr.ContentType = CT_htmlUtf8
    /\ hnd["p1"].res.hdr.ContentDisposition = safeDisposition(N_NOTE)
    /\ hnd["p1"].res.hdr.ContentSecurityPolicy = CSP_extracted

\* C19: every response a handler writes has X-Content-Type-Options: nosniff,
\* X-Frame-Options: DENY and Referrer-Policy: no-referrer.
C19_SecurityHeaders ==
    \A p \in Procs :
        hnd[p].pc = "done" =>
            (/\ hnd[p].res.hdr.XContentTypeOptions = "nosniff"
             /\ hnd[p].res.hdr.XFrameOptions = "DENY"
             /\ hnd[p].res.hdr.ReferrerPolicy = "no-referrer")

\* the 404 of the file server for an asset that does not exist
C19_Witness ==
    /\ hnd["p1"].pc = "done"
    /\ hnd["p1"].req.path = P_noasset
    /\ hnd["p1"].res.status = StatusNotFound
    /\ hnd["p1"].res.hdr.XFrameOptions = "DENY"

\* C20: the Content-Disposition of a served file is inline; filename="<safe>",
\* and <safe> has no control character, no double quote, no / and no \.
C20_SafeDisposition ==
    \A p \in Procs :
        (Downloaded(p) /\ Route(hnd[p].req.path) = "files") =>
            LET v == hnd[p].res.hdr.ContentDisposition
                safe == SubSeq(v, Len(S_inlineFilename) + 1, Len(v) - 1)
            IN  /\ HasPrefix(v, S_inlineFilename)
                /\ Len(v) > Len(S_inlineFilename)
                /\ v[Len(v)] = "\""
                /\ \A i \in 1..Len(safe) :
                      safe[i] \notin ControlRunes \cup {"\"", "/", "\\"}

\* the cleaned path lies in the directory dir: it has the elements of the cleaned
\* dir at its start and does not leave it by a .. right after them
Inside(dir, path) ==
    LET d == Clean(dir)
        n == Len(d.els)
    IN  /\ path.rooted = d.rooted
        /\ Len(path.els) >= n
        /\ SubSeq(path.els, 1, n) = d.els
        /\ Len(path.els) > n => path.els[n + 1] # <<".", ".">>

\* C21: every path writeFile writes for extract, body or dump lies inside the
\* output directory, also for names with .. elements or separators.
C21_WritesInsideOutDir ==
    \A i \in 1..Len(cli.wrote) : Inside(cli.dir, cli.wrote[i].path)

\* the categories a command writes
Wanted(cmd) ==
    IF cmd = "extract" THEN {"attachment"}
    ELSE IF cmd = "body" THEN {"body"}
    ELSE {"body", "attachment", "embedded"}

\* the files of the given categories, in their order
RECURSIVE Pick(_, _)
Pick(files, cats) ==
    IF files = <<>> THEN <<>>
    ELSE (IF files[1].Category \in cats THEN <<files[1]>> ELSE <<>>)
            \o Pick(SubSeq(files, 2, Len(files)), cats)

\* C22: extract hands exactly the attachments of the result to writeFile, body
\* exactly the bodies, dump all files, each in the order of the conversion;
\* embedded files are written by dump only.
C22_Selection ==
    (cli.pc = "write" \/ (cli.pc = "exited" /\ cli.exit = 0 /\ cli.cmd # "help")) =>
        LET want == Pick(cli.file.files, Wanted(cli.cmd))
        IN  /\ Len(cli.wrote) <= Len(want)
            /\ cli.pc = "exited" => Len(cli.wrote) = Len(want)
            /\ \A i \in 1..Len(cli.wrote) :
                   /\ cli.wrote[i].name = want[i].Name
                   /\ cli.wrote[i].data = want[i].Data
                   /\ want[i].Category = "embedded" => cli.cmd = "dump"

\* extract has run on a message with bodies, attachments and an embedded
\* message, and has written the two attachments
C22_Witness ==
    /\ cli.pc = "exited"
    /\ cli.exit = 0
    /\ cli.cmd = "extract"
    /\ cli.file = In_mail
    /\ Len(cli.wrote) = 2
    /\ cli.wrote[2].name = N_pic2

\* the registered decoders whose magic matches the first bytes
ByMagic(head) == { d \in Range(registry) : MatchesMagic(d, head) }

\* the registered decoders with an extension the name ends with
ByExtension(name) == { d \in Range(registry) : MatchesExtension(d, name) }

\* the decoder dec is the right one for a file of that name and first bytes
RightDecoder(dec, name, head) ==
    /\ ByMagic(head) # {} => dec \in ByMagic(head)
    /\ (ByMagic(head) = {} /\ ByExtension(name) # {}) => dec \in ByExtension(name)
    /\ (ByMagic(head) = {} /\ ByExtension(name) = {}) => dec = NoDecoder

\* C23: the decoder used is the one whose magic matches the data; only if no
\* magic matches, the one whose extension matches the name; if neither matches
\* there is none: handleConvert answers 400 Unsupported file format and the
\* command line exits with status 1.
C23_MagicBeforeExtension ==
    /\ \A p \in Procs :
          (hnd[p].pc \in {"create", "respond", "done"} /\ hnd[p].passed # -1) =>
             LET up == hnd[p].req.upload
             IN  /\ RightDecoder(hnd[p].dec, up.name, up.head)
                 /\ hnd[p].dec = NoDecoder <=>
                        (/\ hnd[p].pc = "done"
                         /\ hnd[p].res.status = StatusBadRequest
                         /\ hnd[p].res.msg = "Unsupported file format")
                 /\ hnd[p].dec = NoDecoder => hnd[p].files = <<>>
    /\ (cli.pc \in {"write", "exited"} /\ cli.file.readable) =>
          /\ RightDecoder(cli.dec, cli.file.name, cli.file.head)
          /\ cli.dec = NoDecoder => (cli.pc = "exited" /\ cli.exit = 1 /\ cli.wrote = <<>>)

\* with two formats registered, a stream of the second format named winmail.dat
\* was given to the second decoder, and a text file was refused by the command
C23_Witness ==
    /\ Len(registry) = 2
    /\ hnd["p1"].pc = "done"
    /\ hnd["p1"].req.upload.name = F_winmail
    /\ hnd["p1"].req.upload.head = B_other
    /\ hnd["p1"].dec = OtherFormat
    /\ hnd["p1"].res.status = StatusOK
    /\ cli.pc = "exited"
    /\ cli.file.name = F_text
    /\ cli.dec = NoDecoder

\* the names of the files are pairwise distinct
DistinctNames(files) ==
    \A i, j \in 1..Len(files) : files[i].Name = files[j].Name => i = j

\* the name a request to /api/files/{sid}/{name} asks for
AskedName(p) == SplitN2(TrimPrefix(hnd[p].req.path, S_apiFiles))[2]

NameExt(name) ==
    LET stops == { i \in 1..Len(name) : name[i] \in {".", "/"} }
    IN  IF stops = {} \/ name[SetMax(stops)] = "/" THEN <<>>
        ELSE SubSeq(name, SetMax(stops), Len(name))

\* the fixed table from extensions, in lower case, to kind tags
KindTable(ext) ==
    CASE ext \in {S_dothtml, S_dothtm} -> "html"
      [] ext = S_dottxt -> "text"
      [] ext = S_dotrtf -> "rtf"
      [] ext \in {S_dotpng, S_dotjpg, S_dotjpeg, S_dotgif} -> "image"
      [] ext = S_dotpdf -> "pdf"
      [] ext \in {S_dotdoc, S_dotdocx} -> "document"
      [] ext \in {S_dotxls, S_dotxlsx} -> "spreadsheet"
      [] OTHER -> "file"

KindTags == {"html", "text", "rtf", "image", "pdf", "document", "spreadsheet", "file"}

\* C25: guessType returns one of the eight kind tags for every name; the tag is
\* the table's entry for the name's extension in lower case, so it depends on the
\* extension only and not on its case, and it is file for every extension that
\* is not in the table.
C25_KindByExtension ==
    kind # NoKind =>
        /\ kind.tag \in KindTags
        /\ kind.tag = KindTable(ToLower(NameExt(kind.name)))
        /\ guessType(ToUpper(kind.name)) = kind.tag
        /\ guessType(NameExt(kind.name)) = kind.tag

\* a name in upper case ending in .HTML got the tag html
C25_Witness ==
    /\ kind.name = <<"a">> \o ToUpper(S_dothtml)
    /\ kind.tag = "html"

\* srv.Shutdown has returned
ShutdownOver == serve.pc \in {"stopStore", "stopLimiter", "return", "exited"}

\* the order of cmdServe after the signal: srv.Shutdown returns, with no handler
\* left running unless its 10 seconds ran out, before store.stop(), and
\* store.stop() before limiter.stop(); no done channel is closed twice and both
\* are closed when cmdServe returns; no request is accepted after the signal
ShutdownOrder ==
    /\ serve.storeDone <= 1 /\ serve.limiterDone <= 1
    /\ serve.storeDone > 0 => ShutdownOver /\ serve.pc # "stopStore"
    /\ serve.limiterDone > 0 => serve.storeDone > 0
    /\ serve.pc \in {"return", "exited"} => serve.storeDone = 1 /\ serve.limiterDone = 1
    /\ serve.drained => ShutdownOver /\ Drained
    /\ serve.pc = "exited" => serve.cleaner = "gone" /\ refill.pc = "gone"

\* a step of the cleanup goroutine that sweeps the store
SweepStep == nextSweep' # nextSweep

\* a step of the refill goroutine that reads or writes the token count
RefillStep == refill' # refill /\ refill'.pc # "gone"

\* both goroutines end after stop()
GoroutinesEnd == (serve.storeDone > 0) ~> (serve.cleaner = "gone" /\ refill.pc = "gone")

\* C26 as claimed: srv.Shutdown drains before store.stop() and limiter.stop(),
\* each done channel is closed exactly once, and after stop() the cleanup and
\* refill goroutines end and never touch the store or the token count again.
C26_NoTouchAfterStop ==
    /\ []ShutdownOrder
    /\ [][(serve.storeDone > 0 => ~SweepStep) /\ (serve.limiterDone > 0 => ~RefillStep)]_vars
    /\ GoroutinesEnd

\* C26 as amended: the same order and the same closing of the done channels;
\* after stop() both goroutines end, at the latest with the process when
\* cmdServe returns, and a goroutine that has ended never touches the store or
\* the token count again.
C26_NoTouchAfterEnd ==
    /\ []ShutdownOrder
    /\ [][(serve.cleaner = "gone" => ~SweepStep) /\ (refill.pc = "gone" => ~RefillStep)]_vars
    /\ GoroutinesEnd

\* after a shutdown that drained, with both done channels closed, the cleanup
\* goroutine has ended and the refill goroutine is between its read and its
\* write of the token count
C26_Witness ==
    /\ serve.pc = "return"
    /\ serve.storeDone = 1
    /\ serve.limiterDone = 1
    /\ serve.drained
    /\ serve.cleaner = "gone"
    /\ refill.pc = "loaded"

\* the text without the src values of its img tags
RECURSIVE Skeleton(_, _)
Skeleton(s, from) ==
    LET m == FindMatch(s, from)
    IN  IF m = NoMatch THEN SubSeq(s, from, Len(s))
        ELSE SubSeq(s, from, m.p - 1) \o Prefix(s, m) \o Suffix(s, m)
                \o Skeleton(s, m.r + 1)

\* src values that are not http:// or https:// URLs
OtherSrcs ==
    { U_cid, <<"a",".","p","n","g">>, <<"/","a">>, <<"f","t","p",":","/","/","h">>,
      <<"H","T","T","P",":","/","/","h">>, <<"/","/","h","/","a">>,
      DataURI(CT_png, 1) }

\* C27: InlineExternalImages changes only src values, and only those of img tags
\* whose URL starts with http:// or https:// and was fetched with success; all
\* other bytes stay, in their order; a tag with any other src is byte-identical,
\* and for such a src no fetch is made and no cache entry is written.
C27_OnlyFetchedSrcChanged ==
    /\ last.via = "skip" => ~IsHTTP(last.url) /\ last.piece = last.tag
    /\ last.piece # last.tag =>
          (/\ IsHTTP(last.url)
           /\ last.uri # <<>>
           /\ \E i \in DOMAIN fetchLog :
                 /\ fetchLog[i].url = last.url
                 /\ fetchLog[i].uri = last.uri
           /\ Skeleton(last.piece, 1) = Skeleton(last.tag, 1))
    /\ \A u \in DOMAIN cache : IsHTTP(u)
    /\ \A i \in DOMAIN fetchLog : IsHTTP(fetchLog[i].url)
    /\ pc \in {"fetch", "get", "resp"} => IsHTTP(Url(html, cur))
    /\ (pc = "idle" /\ calls > 0) =>
          (/\ Skeleton(out, 1) = Skeleton(html, 1)
           /\ out = Rendered(html, 1, cache))
    /\ \A u \in OtherSrcs :
          LET d == Text \o ImgTag(u)
              m == FindMatch(d, 1)
          IN  m # NoMatch /\ Url(d, m) = u /\ ~IsHTTP(u)

\* a call has returned a document in which one tag was rewritten, and its last
\* tag, with a cid: src, was left alone; nothing was noted for cid:
C27_Witness ==
    /\ pc = "idle"
    /\ last.via = "skip"
    /\ last.url = U_cid
    /\ out # html
    /\ Contains(out, S_base64)
    /\ U_cid \notin DOMAIN cache

\* the time of the last tick of the cleanup ticker
LastTick == nextSweep - Minute

\* a session leaves the store only when it is more than 10 minutes old, and a
\* session that stays is the same session
RemovedOnlyExpired ==
    \A id \in DOMAIN sessions :
        IF id \in DOMAIN sessions'
        THEN sessions'[id] = sessions[id]
        ELSE now - sessions[id].created > SessionTTL /\ now = nextSweep

\* an ID comes into the store only by a create of handleConvert, as a session
\* made at that moment
AddedOnlyByCreate ==
    \A id \in DOMAIN sessions' :
        id \notin DOMAIN sessions =>
            /\ sessions'[id].created = now
            /\ \E p \in Procs : hnd[p].pc = "create" /\ hnd'[p].sid = id

\* handleFile gets the session of the requested ID exactly when the store has it
GetReturnsStored ==
    \A p \in Procs :
        (hnd[p].pc = "files" /\ hnd'[p].pc # "files") =>
            LET sid == SplitN2(TrimPrefix(hnd[p].req.path, S_apiFiles))[1]
            IN  IF sid \in DOMAIN sessions
                THEN /\ hnd'[p].pc = "serve"
                     /\ hnd'[p].sid = sid
                     /\ hnd'[p].files = sessions[sid].files
                ELSE /\ hnd'[p].pc = "done"
                     /\ hnd'[p].res.status = StatusNotFound

\* C28: a session is not removed before it is more than 10 minutes old, and get
\* returns it until then; it is removed at the first tick of the cleanup ticker
\* at which it is more than 10 minutes old, and from then on get returns nil
\* for its ID: nothing but a new create brings an ID into the store.
C28_RemovedAtFirstTickAfterTTL ==
    /\ [](\A id \in DOMAIN sessions : LastTick - sessions[id].created <= SessionTTL)
    /\ [][RemovedOnlyExpired /\ AddedOnlyByCreate /\ GetReturnsStored]_vars

\* after the one upload its session has been removed by a tick later than the
\* 10th minute, and a request for its files was answered as expired
C28_Witness ==
    /\ stat.uploads = 1
    /\ sessions = EmptyMap
    /\ LastTick > SessionTTL
    /\ hnd["p1"].pc = "done"
    /\ Route(hnd["p1"].req.path) = "files"
    /\ hnd["p1"].res.status = StatusNotFound
    /\ hnd["p1"].res.msg = "Session expired or not found"

\* C29: in every state the token count is at least 0 and at most maxTokens, and
\* so is every value of it that refill or allow has loaded and may write back
\* from: refill does not raise it above maxTokens, allow does not take it
\* below zero.
C29_TokensInRange ==
    /\ 0 <= tokens /\ tokens <= BurstTokens
    /\ 0 <= refill.cur /\ refill.cur <= BurstTokens
    /\ \A p \in Procs :
          hnd[p].pc = "cas" => (1 <= hnd[p].cur /\ hnd[p].cur <= BurstTokens)

\* after a refill tick that gave tokens back, all tokens are taken and a call
\* of allow has returned false
C29_Witness ==
    /\ tokens = 0
    /\ stat.ticks = 1
    /\ stat.granted > BurstTokens
    /\ \E p \in Procs :
          hnd[p].pc = "done" /\ hnd[p].res.status = StatusTooManyRequests

\* a step in which a call of allow returns true
GrantStep == stat'.granted # stat.granted

\* a step in which the goroutine p returns false from allow
RefuseStep(p) == hnd[p].pc = "allow" /\ hnd'[p].pc = "done"

\* every true of allow is one decrement of a positive count, every decrement is
\* one true, and a false leaves a count of zero as it is
OneTokenPerTrue ==
    /\ GrantStep => (stat'.granted = stat.granted + 1 /\ tokens >= 1
                       /\ tokens' = tokens - 1)
    /\ tokens' < tokens => GrantStep
    /\ \A p \in Procs :
          /\ RefuseStep(p) => (tokens' = tokens /\ tokens <= 0)
          /\ (hnd[p].pc = "cas" /\ hnd'[p].pc = "allow") => tokens' = tokens
          /\ (hnd[p].pc = "allow" /\ hnd'[p].pc = "cas") => tokens' = tokens

\* the refill goroutine has not run
NoTickYet == stat.ticks = 0 /\ refill.pc = "wait"

\* C30: calls of allow that run concurrently, with no refill tick in between,
\* act as if one after the other: of n calls on k tokens min(k, n) return true;
\* each true is exactly one decrement of the count and a false leaves the count
\* unchanged.
C30_AllowAtomic ==
    /\ [](NoTickYet =>
            /\ tokens + stat.granted = BurstTokens
            /\ \A p \in Procs :
                  (hnd[p].pc = "done" /\ hnd[p].res.status = StatusTooManyRequests) =>
                      stat.granted = BurstTokens)
    /\ [][OneTokenPerTrue]_vars

\* two calls of allow had loaded the same count; the swap of one was made, the
\* swap of the other was not and it loads again
C30_Witness ==
    /\ NoTickYet
    /\ hnd["p1"].pc = "read"
    /\ hnd["p1"].took = 1
    /\ hnd["p2"].pc = "allow"
    /\ hnd["p2"].cur = tokens + 1
    /\ stat.granted = 1

\* the goroutine p is past limiter.allow() with a token
PastLimiter(p) == hnd[p].pc \in {"read", "create", "respond", "done"} /\ hnd[p].took = 1

\* the token count changes in a step of allow() that returns true, by one, and
\* in no other step of a handler
TokenTakenOnce ==
    \A p \in Procs :
        hnd'[p] # hnd[p] =>
            IF hnd[p].took = 0 /\ hnd'[p].took = 1
            THEN hnd[p].pc = "cas" /\ hnd'[p].pc = "read" /\ tokens' = tokens - 1
            ELSE tokens' = tokens

\* C31: in handleConvert the method test comes before the rate limiter and the
\* limiter before the reading of the body: a request that is not a POST is
\* answered 405 and takes no token; a POST that passes the limiter takes exactly
\* one token, and the token is not given back when the request fails afterwards
\* (no file, unsupported format, conversion error, empty result).
C31_MethodLimiterBody ==
    /\ [](\A p \in Procs :
            /\ (Converted(p) /\ hnd[p].req.method # "POST") =>
                  (/\ hnd[p].res.status = StatusMethodNotAllowed
                   /\ hnd[p].took = 0 /\ hnd[p].read = 0 /\ hnd[p].passed = -1)
            /\ (Converted(p) /\ hnd[p].req.method = "POST") =>
                  (hnd[p].took = 0 <=> hnd[p].res.status = StatusTooManyRequests)
            /\ (hnd[p].read # 0 \/ hnd[p].passed # -1 \/ hnd[p].files # <<>>) =>
                  (Route(hnd[p].req.path) = "convert" => PastLimiter(p))
            /\ hnd[p].pc \in {"read", "create", "respond"} => hnd[p].took = 1)
    /\ [](tokens + stat.granted = BurstTokens)
    /\ [][TokenTakenOnce]_vars

\* two POSTs have passed the limiter; the second, a text file, was answered 400
\* Unsupported file format and both tokens are gone
C31_Witness ==
    /\ Converted("p1")
    /\ hnd["p1"].req.upload = Up_unknown
    /\ hnd["p1"].res.msg = "Unsupported file format"
    /\ hnd["p1"].took = 1
    /\ stat.granted = 2
    /\ tokens = BurstTokens - 2

\* the entry of the response and of the session for the converted item
AgreesWithItem(f, item) ==
    /\ f.Name = item.Name
    /\ f.Size = Len(item.Data)
    /\ f.Type = guessType(item.Name)
    /\ f.data = item.Data

\* C32: after a conversion that succeeded the response lists one entry per
\* converted item, in the order of the conversion, with the length of its data
\* as size and guessType(name) as type; the session stored under the returned
\* ID holds exactly these files with their data, and it is in the store when
\* the response is written.
C32_ResponseAgreesWithSession ==
    /\ [](\A p \in Procs :
            (Converted(p) /\ hnd[p].res.status = StatusOK) =>
                LET items == hnd[p].req.upload.items
                    sid == hnd[p].res.sid
                IN  /\ sid \in DOMAIN sessions
                    /\ Len(hnd[p].res.files) = Len(items)
                    /\ \A i \in 1..Len(items) :
                          AgreesWithItem(hnd[p].res.files[i], items[i])
                    /\ sessions[sid].files = hnd[p].res.files)
    /\ [][\A p \in Procs :
            (hnd[p].pc = "respond" /\ hnd'[p].pc = "done") =>
                (/\ hnd'[p].res.sid \in DOMAIN sessions
                 /\ sessions[hnd'[p].res.sid].files = hnd'[p].res.files
                 /\ sessions' = sessions)]_vars

\* the response for a message of a page of 3 bytes and a picture of 2 bytes
\* lists both, and the session of its ID holds both
C32_Witness ==
    /\ Converted("p1")
    /\ hnd["p1"].req.upload = Up_mail
    /\ hnd["p1"].res.status = StatusOK
    /\ Len(hnd["p1"].res.files) = 2
    /\ hnd["p1"].res.files[1].Type = "html"
    /\ hnd["p1"].res.files[2].Type = "image"
    /\ hnd["p1"].res.files[1].Size # hnd["p1"].res.files[2].Size
    /\ sessions[hnd["p1"].res.sid].files[2].data = D_bin

LowerHexChars == {"0","1","2","3","4","5","6","7","8","9","a","b","c","d","e","f"}

\* 32 characters, each a digit or a letter a to f, which the handlers accept
WellFormedID(id) ==
    /\ Len(id) = 32
    /\ \A i \in 1..Len(id) : id[i] \in LowerHexChars
    /\ Len(id) = SessionIDLen /\ isHexString(id)
    /\ SplitN2(TrimPrefix(FilePath(id, N_page), S_apiFiles)) = <<id, N_page>>
    /\ TrimPrefix(ZipPath(id), S_apiZip) = id

\* the ID a request to /api/zip/{sid} or /api/files/{sid}/{name} asks for, or
\* the empty text when the path has no such form
AskedID(p) ==
    LET parts == SplitN2(TrimPrefix(hnd[p].req.path, S_apiFiles))
    IN  IF Route(hnd[p].req.path) = "zip" THEN TrimPrefix(hnd[p].req.path, S_apiZip)
        ELSE IF Len(parts) = 2 THEN parts[1] ELSE <<>>

\* a handler that looks up the ID of a session of the store gets that session
FoundByGet ==
    \A p \in Procs :
        (hnd[p].pc \in {"files", "zip"} /\ hnd'[p].pc # hnd[p].pc
            /\ AskedID(p) \in DOMAIN sessions) =>
            (/\ hnd'[p].pc \in {"serve", "zipserve"}
             /\ hnd'[p].sid = AskedID(p)
             /\ hnd'[p].files = sessions[AskedID(p)].files)

\* bytes with a small, a large, an equal and a letter-only pair of hex digits
ByteSamples == {0, 9, 10, 26, 175, 255}

\* C33: every ID create returns has exactly 32 hexadecimal characters in lower
\* case and passes the ID test of handleFile and handleZip; a session that was
\* created and is not yet cleaned up is found by get under its ID.
C33_CreatedIDsWellFormed ==
    /\ [](/\ \A id \in DOMAIN sessions : WellFormedID(id)
          /\ \A p \in Procs :
                (hnd[p].pc = "respond" \/ (Converted(p) /\ hnd[p].res.status = StatusOK)) =>
                    WellFormedID(hnd[p].sid)
          /\ \A b \in ByteSamples : WellFormedID(HexEncode([i \in 1..RandomIDBytes |-> b])))
    /\ [][FoundByGet]_vars
    /\ [][\A p \in Procs :
            (hnd[p].pc = "create" /\ hnd'[p].pc = "respond") =>
                (/\ hnd'[p].sid \in DOMAIN sessions'
                 /\ sessions'[hnd'[p].sid].files = hnd[p].files)]_vars

\* the session made under the ID 0101...01 was found by a request for its files
C33_Witness ==
    /\ Downloaded("p1")
    /\ Route(hnd["p1"].req.path) = "files"
    /\ hnd["p1"].sid = HexEncode([i \in 1..RandomIDBytes |-> 1])
    /\ hnd["p1"].sid \in DOMAIN sessions

\* the goroutine p has answered a request to /api/files/ or /api/zip/
FileAnswered(p) == hnd[p].pc = "done" /\ Route(hnd[p].req.path) \in {"files", "zip"}

\* the response carries no bytes of a file
NoFileBytes(res) == res.data = <<>> /\ res.files = <<>>

\* 32 hexadecimal characters
Has32Hex(id) == Len(id) = 32 /\ \A i \in 1..Len(id) : id[i] \in HexChars

\* C34: handleFile and handleZip give file data only for a well-formed ID of a
\* session of the store. An ID that has not exactly 32 hexadecimal characters is
\* answered 404 without a lookup in the store, a well-formed ID without a
\* session 404 Session expired or not found, and in handleFile a name that no
\* file of the session has 404; none of these answers carries bytes of a file,
\* and no step of these handlers changes the store.
C34_DataOnlyForLiveSession ==
    /\ [](\A p \in Procs :
            FileAnswered(p) =>
                /\ ~Has32Hex(AskedID(p)) =>
                      (/\ hnd[p].res.status = StatusNotFound
                       /\ hnd[p].res.msg = "404 page not found"
                       /\ hnd[p].sid = <<>> /\ hnd[p].files = <<>>)
                /\ (Has32Hex(AskedID(p)) /\ hnd[p].sid = <<>>) =>
                      (/\ hnd[p].res.status = StatusNotFound
                       /\ hnd[p].res.msg = "Session expired or not found"
                       /\ hnd[p].res.hdr.ContentType = CT_json)
                /\ (Route(hnd[p].req.path) = "files" /\ hnd[p].sid # <<>>
                       /\ \A i \in 1..Len(hnd[p].files) :
                             hnd[p].files[i].Name # AskedName(p)) =>
                      hnd[p].res.status = StatusNotFound
                /\ hnd[p].res.status # StatusOK =>
                      (hnd[p].res.status = StatusNotFound /\ NoFileBytes(hnd[p].res))
                /\ hnd[p].res.status = StatusOK =>
                      (Has32Hex(AskedID(p)) /\ hnd[p].sid = AskedID(p)))
    /\ [][\A p \in Procs :
            /\ (hnd[p].pc \in {"files", "serve", "zip", "zipserve"} /\ hnd'[p] # hnd[p]) =>
                  sessions' = sessions
            /\ (hnd[p].pc \in {"files", "zip"} /\ hnd'[p].pc \in {"serve", "zipserve"}) =>
                  (/\ Has32Hex(AskedID(p))
                   /\ AskedID(p) \in DOMAIN sessions
                   /\ hnd'[p].files = sessions[AskedID(p)].files)]_vars

\* with a session in the store, a request for a file under an ID of 32
\* characters, one of them no hexadecimal digit, was answered 404 page not found
C34_Witness ==
    /\ FileAnswered("p1")
    /\ hnd["p1"].req.path = FilePath(ID_nonhex, N_page)
    /\ hnd["p1"].res.status = StatusNotFound
    /\ hnd["p1"].res.msg = "404 page not found"
    /\ sessions # EmptyMap

\* the media type of a Content-Type: the text before its parameters
MediaType(ct) ==
    LET semis == { i \in 1..Len(ct) : ct[i] = ";" }
    IN  IF semis = {} THEN ct ELSE SubSeq(ct, 1, SetMin(semis) - 1)

ServedTypes ==
    { CT_html, <<"t","e","x","t","/","p","l","a","i","n">>, CT_rtf, CT_png, CT_jpeg,
      CT_gif, CT_pdf, CT_octet }

\* C35: for every file name the Content-Type of handleFile,
\* contentType(name, guessType(name)), is text/html, text/plain,
\* application/rtf, image/png, image/jpeg, image/gif, application/pdf or
\* application/octet-stream; a name that ends in .svg, .bmp or .webp is served
\* as application/octet-stream and never with an image type.
C35_ServedTypes ==
    kind # NoKind =>
        /\ MediaType(kind.ct) \in ServedTypes
        /\ kind.ct \notin {CT_bmp, CT_webp, CT_svgxml}
        /\ ToLower(NameExt(kind.name)) \in {S_dotsvg, S_dotbmp, S_dotwebp} =>
              kind.ct = CT_octet
        /\ HasPrefix(kind.ct, S_image) => kind.tag = "image"
        /\ kind.tag = "image" => kind.ct \in {CT_png, CT_jpeg, CT_gif}

\* a name that ends in .SVG got application/octet-stream
C35_Witness ==
    /\ kind.name = <<"a">> \o ToUpper(S_dotsvg)
    /\ kind.tag = "file"
    /\ kind.ct = CT_octet

\* the files handleConvert makes of the message of the uploads
MailFiles == ExtractedFiles(Up_mail.items)

\* the files of a session of the store are not changed
FilesNeverMutated ==
    \A id \in DOMAIN sessions :
        id \in DOMAIN sessions' => sessions'[id].files = sessions[id].files

\* a handler that has got a session keeps its files until it has answered, and
\* answers from them, whatever happens to the store
ServesWhatItGot ==
    \A p \in Procs :
        /\ (hnd[p].pc \in {"serve", "zipserve"} /\ hnd'[p].pc \in {"serve", "zipserve", "done"}) =>
              hnd'[p].files = hnd[p].files
        /\ (hnd[p].pc = "zipserve" /\ hnd'[p].pc = "done") =>
              (hnd'[p].res.status = StatusOK /\ hnd'[p].res.files = hnd[p].files)
        /\ (hnd[p].pc = "serve" /\ hnd'[p].pc = "done") =>
              \A i \in 1..Len(hnd[p].files) :
                  hnd[p].files[i].Name = AskedName(p) =>
                      (hnd'[p].res.status = StatusOK
                          /\ hnd'[p].res.data = hnd[p].files[i].data)

\* C36: a file or zip request that got its session from get before cleanup
\* deleted it is answered with the full, unchanged files of that session: the
\* files of a session are never changed after create, the handlers read them
\* outside the lock of the store, and cleanup only removes the entry of the map.
C36_ServedAfterDelete ==
    /\ [](\A p \in Procs :
            (hnd[p].pc \in {"serve", "zipserve"} \/ Downloaded(p)) =>
                hnd[p].files = MailFiles)
    /\ [](\A id \in DOMAIN sessions : sessions[id].files = MailFiles)
    /\ [](\A p \in Procs :
            (Downloaded(p) /\ Route(hnd[p].req.path) = "zip") =>
                hnd[p].res.files = MailFiles)
    /\ [][FilesNeverMutated /\ ServesWhatItGot]_vars

\* a zip request holds the files of a session that cleanup has removed from the
\* store since the request got it
C36_Witness ==
    /\ hnd["p1"].pc = "zipserve"
    /\ hnd["p1"].sid \notin DOMAIN sessions
    /\ hnd["p1"].files = MailFiles
    /\ LastTick > SessionTTL

\* a writer holds the store's lock alone
WritersExclusive == mu.writer # "" => mu.readers = {}

\* the goroutines inside create and get are those that hold the lock
LockHolders ==
    \A p \in Procs : /\ mu.writer = p <=> hnd[p].pc = "creating"
                     /\ p \in mu.readers <=> hnd[p].pc = "zipget"

\* a conversion that succeeded answered with the ID of a session of its own, and
\* that session, while it is in the store, holds the files of its own upload
OwnSession ==
    \A p \in Procs :
        (Converted(p) /\ hnd[p].res.status = StatusOK) =>
            /\ hnd[p].res.sid = hnd[p].sid
            /\ hnd[p].res.files = ExtractedFiles(hnd[p].req.upload.items)
            /\ \A q \in Procs \ {p} : hnd[q].pc \in {"respond", "done"} =>
                  hnd[q].sid # hnd[p].sid \/ Route(hnd[q].req.path) # "convert"
            /\ hnd[p].sid \in DOMAIN sessions =>
                  /\ sessions[hnd[p].sid].files = ExtractedFiles(hnd[p].req.upload.items)
                  /\ sessions[hnd[p].sid].by = hnd[p].req.client

\* the map changes only in a step of the goroutine that holds the write lock:
\* create adds one session under a new ID with the files of its own upload and
\* leaves every other session as it is; cleanup removes expired sessions only
WriteStep ==
    sessions' # sessions =>
        \/ \E p \in Procs :
              /\ mu.writer = p /\ mu.readers = {}
              /\ hnd[p].pc = "creating" /\ hnd'[p].pc = "respond"
              /\ hnd'[p].sid \notin DOMAIN sessions
              /\ DOMAIN sessions' = DOMAIN sessions \cup {hnd'[p].sid}
              /\ sessions'[hnd'[p].sid].files = ExtractedFiles(hnd[p].req.upload.items)
              /\ \A id \in DOMAIN sessions : sessions'[id] = sessions[id]
        \/ /\ mu.writer = "cleanup" /\ mu.readers = {}
           /\ DOMAIN sessions' \subseteq DOMAIN sessions
           /\ \A id \in DOMAIN sessions :
                 IF id \in DOMAIN sessions' THEN sessions'[id] = sessions[id]
                 ELSE Expired(sessions[id], now)

\* a goroutine takes a session from the map only while it holds the read lock
ReadStep ==
    \A p \in Procs :
        (hnd'[p].pc = "zipserve" /\ hnd[p].pc # "zipserve") =>
            /\ p \in mu.readers /\ mu.writer = ""
            /\ hnd'[p].files = sessions[hnd'[p].sid].files

\* C37: for every interleaving of two goroutines in handleConvert and handleZip
\* with the cleanup goroutine, each conversion that succeeded has a session of
\* its own whose files are those of its own upload, creating a session neither
\* removes nor changes another session, cleanup removes expired sessions only,
\* and the sessions map is read under the read lock and written under the write
\* lock, which its holder has alone.
C37_ConversionsIsolated ==
    /\ [](WritersExclusive /\ LockHolders /\ OwnSession)
    /\ [][WriteStep /\ ReadStep]_vars

\* after the first sessions expired both goroutines converted different uploads
\* while cleanup swept: each has its own session with its own files
C37_Witness ==
    /\ now = SessionTTL + Minute
    /\ nextSweep > now
    /\ \A p \in Procs : Converted(p) /\ hnd[p].res.status = StatusOK
                        /\ hnd[p].sid \in DOMAIN sessions
                        /\ sessions[hnd[p].sid].created = now
    /\ hnd["p1"].req.upload = Up_mail
    /\ hnd["p2"].req.upload = Up_twins
    /\ sessions[hnd["p1"].sid].files # sessions[hnd["p2"].sid].files

\* the input of the run cannot be read, has no decoder, or does not convert
InputFails ==
    \/ ~cli.file.readable
    \/ Detect(registry, cli.file.name, cli.file.head) = NoDecoder
    \/ cli.file.conv = "error"

\* the files the command of the run selects from the result of the conversion
RunSelection == Selected(cli.cmd, cli.file.files)

\* the calls of writeFile made so far are for the first selected files, one call
\* per file, in their order, whether or not a call before failed
AttemptsInOrder ==
    /\ Len(cli.wrote) <= Len(RunSelection)
    /\ \A i \in 1..Len(cli.wrote) : /\ cli.wrote[i].name = RunSelection[i].Name
                                    /\ cli.wrote[i].data = RunSelection[i].Data

\* the files on disk after the calls made so far
Written == { i \in 1..Len(cli.wrote) : cli.wrote[i].ok }

\* a call of writeFile, failed or not, leaves the run in its loop
WriteGoesOn ==
    Len(cli'.wrote) > Len(cli.wrote) =>
        /\ Len(cli'.wrote) = Len(cli.wrote) + 1
        /\ cli.pc = "write" /\ cli'.pc = "write" /\ cli'.exit = -1

\* C38: a run whose input was read, detected and converted calls writeFile for
\* every selected file, in order, whatever the calls before returned, and then
\* ends with status 0, so that the files written are the selected files whose
\* own write succeeded; a run whose input cannot be read, detected or converted
\* ends with status 1 without a call of writeFile.
C38_WriteFailureGoesOn ==
    /\ [](cli.pc \in {"write", "exited"} /\ cli.cmd \in {"extract", "body", "dump"}
          /\ cli.file # NoInput =>
            /\ AttemptsInOrder
            /\ InputFails => cli.pc = "exited" /\ cli.exit = 1 /\ cli.wrote = <<>>
            /\ (~InputFails /\ cli.pc = "exited") =>
                  /\ cli.exit = 0
                  /\ Len(cli.wrote) = Len(RunSelection)
                  /\ Written = { i \in 1..Len(RunSelection) : cli.wrote[i].ok })
    /\ [][WriteGoesOn]_vars

\* a run over: the second write failed, the first and the third succeeded
C38_Witness ==
    /\ cli.pc = "exited"
    /\ cli.exit = 0
    /\ Len(cli.wrote) >= 3
    /\ Written = (1..Len(cli.wrote)) \ {2}

====
